-------------------------- MODULE PayoutLedgerProofs --------------------------
(***************************************************************************)
(* For every set of blocks and daemons and every number of failures: only  *)
(* stored blocks are credited, what is marked paid was sent and is final,  *)
(* and only failures make the wallet pay twice.                            *)
(***************************************************************************)
EXTENDS PayoutLedger, FiniteSetTheorems, TLAPS

(* BlockSubmission *)

CallType == [step : Steps, answers : [Daemons -> Answers]]

LEMMA SettledType ==
  ASSUME NEW step \in Steps
  PROVE  /\ Settled(step) \in CallType /\ Asking(step) \in CallType
         /\ Settled(step).step = step /\ Asking(step).step = step
         /\ \A d \in Daemons : Settled(step).answers[d] = "waiting"
                               /\ Asking(step).answers[d] = "waiting"
  BY DEF Settled, Asking, CallType, Answers

SubInv == SubmissionTypeOK /\ AcceptedStored

LEMMA SubInvInit == SubmissionInit => SubInv
<1> SUFFICES ASSUME SubmissionInit
             PROVE  SubInv
  OBVIOUS
<1>1. \A b \in Blocks : call[b] \in CallType /\ call[b].step = "none"
  BY SettledType DEF SubmissionInit, Steps
<1>2. call \in [Blocks -> [step : Steps, answers : [Daemons -> Answers]]]
  BY <1>1 DEF SubmissionInit, CallType
<1> QED
  BY <1>1, <1>2, BlockAssumption DEF SubmissionInit, SubInv, SubmissionTypeOK, AcceptedStored

\* What the pool's handlers do to the calls: only a block that is being looked
\* up becomes accepted, and nothing an accepted one is.
CallsMoveOn ==
  \A b \in Blocks :
    /\ call[b].step = "accepted" => call'[b] = call[b]
    /\ call'[b].step = "accepted" => call[b].step \in {"checking", "accepted"}
    /\ call'[b].step = "checking" => call[b].step \in {"submitting", "checking"}
    /\ call'[b].step = "submitting" => call[b].step \in {"none", "submitting"}

\* One call changes and the daemons store no less.
LEMMA OneCall ==
  ASSUME SubInv, NEW b \in Blocks, NEW k \in CallType,
         call' = [call EXCEPT ![b] = k],
         has' \in [Daemons -> SUBSET Blocks],
         \A d \in Daemons : has[d] \subseteq has'[d],
         UNCHANGED <<main, mature, faults>>,
         k.step = "accepted" => b \in Stored,
         k.step = "checking" /\ (\E d \in Daemons : k.answers[d] = "fine") => b \in Stored
  PROVE  SubInv'
<1>1. call' \in [Blocks -> [step : Steps, answers : [Daemons -> Answers]]]
  BY DEF SubInv, SubmissionTypeOK, CallType
<1>2. Stored \subseteq Stored'
  BY DEF Stored
<1>3. \A o \in Blocks : call'[o] = IF o = b THEN k ELSE call[o]
  BY DEF SubInv, SubmissionTypeOK
<1> QED
  BY <1>1, <1>2, <1>3 DEF SubInv, SubmissionTypeOK, AcceptedStored

LEMMA PoolStepKeeps ==
  ASSUME SubInv, PoolStep
  PROVE  SubInv' /\ CallsMoveOn
<1>0. call \in [Blocks -> CallType] /\ has \in [Daemons -> SUBSET Blocks]
  BY DEF SubInv, SubmissionTypeOK, CallType
<1>1. ASSUME NEW b \in Blocks, FindBlock(b)
      PROVE  SubInv' /\ CallsMoveOn
  <2>1. call' = [call EXCEPT ![b] = Asking("submitting")] /\ has' = has
        /\ call[b].step = "none" /\ UNCHANGED <<main, mature, faults>>
    BY <1>1 DEF FindBlock
  <2>2. Asking("submitting") \in CallType /\ Asking("submitting").step = "submitting"
    BY SettledType DEF Steps
  <2>3. SubInv'
    BY <1>0, <2>1, <2>2, OneCall
  <2> QED
    BY <1>0, <2>1, <2>2, <2>3 DEF CallsMoveOn
<1>2. ASSUME NEW b \in Blocks, NEW d \in Daemons, NEW stored \in BOOLEAN,
             NEW answer \in {"fine", "failed"}, SubmitAnswer(b, d, stored, answer)
      PROVE  SubInv' /\ CallsMoveOn
  <2> DEFINE answers == WithAnswer(b, d, answer)
             later == [call[b] EXCEPT !.answers = answers]
             k == IF \E e \in Daemons : answers[e] = "waiting" THEN later ELSE Submitted(answers)
  <2>1. /\ call' = [call EXCEPT ![b] = k] /\ call[b].step = "submitting"
        /\ has' = [has EXCEPT ![d] = IF stored THEN @ \cup {b} ELSE @]
        /\ UNCHANGED <<main, mature, faults>>
    BY <1>0, <1>2 DEF SubmitAnswer, Answered
  <2>2. answers \in [Daemons -> Answers]
    BY <1>0 DEF WithAnswer, CallType, Answers
  <2> HIDE DEF answers
  <2>3. later \in CallType /\ later.step = "submitting"
    BY <1>0, <2>1, <2>2 DEF CallType
  <2>4. /\ Submitted(answers) \in CallType
        /\ Submitted(answers).step \in {"lost", "checking"}
        /\ \A e \in Daemons : Submitted(answers).answers[e] = "waiting"
    BY SettledType DEF Submitted, Steps
  <2> HIDE DEF later
  <2>5. /\ k \in CallType /\ k.step \in {"submitting", "lost", "checking"}
        /\ k.step = "checking" => \A e \in Daemons : k.answers[e] = "waiting"
    BY <2>3, <2>4
  <2> HIDE DEF k
  <2>6. has' \in [Daemons -> SUBSET Blocks] /\ \A e \in Daemons : has[e] \subseteq has'[e]
    BY <1>0, <2>1
  <2>7. SubInv'
    BY <2>1, <2>5, <2>6, OneCall
  <2> QED
    BY <1>0, <2>1, <2>5, <2>7 DEF CallsMoveOn
<1>3. ASSUME NEW b \in Blocks, NEW d \in Daemons, NEW error \in BOOLEAN, CheckAnswer(b, d, error)
      PROVE  SubInv' /\ CallsMoveOn
  <2> DEFINE answer == IF b \in has[d] /\ ~error THEN "fine" ELSE "failed"
             answers == WithAnswer(b, d, answer)
             later == [call[b] EXCEPT !.answers = answers]
             k == IF \E e \in Daemons : answers[e] = "waiting" THEN later ELSE Checked(answers)
  <2>1. /\ call' = [call EXCEPT ![b] = k] /\ call[b].step = "checking"
        /\ UNCHANGED <<has, main, mature, faults>>
    BY <1>0, <1>3 DEF CheckAnswer, Answered
  <2>2. answers \in [Daemons -> Answers]
    BY <1>0 DEF WithAnswer, CallType, Answers
  <2>3. (\E e \in Daemons : answers[e] = "fine") => b \in Stored
    BY <1>0, <2>1 DEF WithAnswer, CallType, Stored, SubInv, AcceptedStored
  <2> HIDE DEF answers
  <2>4. later \in CallType /\ later.step = "checking" /\ later.answers = answers
    BY <1>0, <2>1, <2>2 DEF CallType
  <2>5. /\ Checked(answers) \in CallType
        /\ Checked(answers).step \in {"accepted", "refused"}
        /\ Checked(answers).step = "accepted" => \E e \in Daemons : answers[e] = "fine"
    BY SettledType DEF Checked, Steps
  <2> HIDE DEF later
  <2>6. /\ k \in CallType /\ k.step \in {"checking", "accepted", "refused"}
        /\ k.step = "accepted" => b \in Stored
        /\ k.step = "checking" /\ (\E e \in Daemons : k.answers[e] = "fine") => b \in Stored
    BY <2>3, <2>4, <2>5
  <2> HIDE DEF k
  <2>7. SubInv'
    BY <1>0, <2>1, <2>6, OneCall
  <2> QED
    BY <1>0, <2>1, <2>6, <2>7 DEF CallsMoveOn
<1> QED
  BY <1>1, <1>2, <1>3 DEF PoolStep

LEMMA PoolCrashKeeps ==
  ASSUME SubInv, PoolCrash
  PROVE  SubInv' /\ CallsMoveOn /\ faults' = faults + 1
<1>0. call \in [Blocks -> CallType] /\ faults \in 0 .. MaxFaults /\ MaxFaults \in Nat
  BY BlockAssumption DEF SubInv, SubmissionTypeOK, CallType
<1>1. /\ call' = [b \in Blocks |-> IF call[b].step \in {"submitting", "checking"}
                                   THEN Settled("lost") ELSE call[b]]
      /\ UNCHANGED <<has, main, mature>> /\ faults < MaxFaults /\ faults' = faults + 1
  BY DEF PoolCrash, Fault
<1>2. Settled("lost") \in CallType /\ Settled("lost").step = "lost"
  BY SettledType DEF Steps
<1>3. call' \in [Blocks -> CallType]
  BY <1>0, <1>1, <1>2
<1>4. Stored' = Stored /\ faults' \in 0 .. MaxFaults
  BY <1>0, <1>1 DEF Stored
<1> QED
  BY <1>0, <1>1, <1>2, <1>3, <1>4
  DEF SubInv, SubmissionTypeOK, AcceptedStored, CallsMoveOn, CallType

LEMMA ChainStepKeeps ==
  ASSUME SubInv, ChainStep
  PROVE  SubInv' /\ call' = call /\ faults' = faults
<1>0. /\ has \in [Daemons -> SUBSET Blocks] /\ main \subseteq Stored /\ mature \subseteq main
      /\ Stored \subseteq Blocks /\ Height \in [Blocks -> Nat]
  BY BlockAssumption DEF SubInv, SubmissionTypeOK, Stored
<1>1. ASSUME NEW b \in Blocks, NEW d \in Daemons, Relay(b, d)
      PROVE  SubInv' /\ call' = call /\ faults' = faults
  <2>1. has' = [has EXCEPT ![d] = has[d] \cup {b}] /\ UNCHANGED <<call, main, mature, faults>>
    BY <1>1 DEF Relay
  <2>2. has' \in [Daemons -> SUBSET Blocks] /\ Stored \subseteq Stored'
    BY <1>0, <2>1 DEF Stored
  <2> QED
    BY <2>1, <2>2 DEF SubInv, SubmissionTypeOK, AcceptedStored
<1>2. ASSUME NEW b \in Blocks, Activate(b)
      PROVE  SubInv' /\ call' = call /\ faults' = faults
  <2>1. /\ main' = {c \in main : Height[c] # Height[b]} \cup {b}
        /\ UNCHANGED <<call, has, mature, faults>> /\ b \in Stored
        /\ \A m \in mature : Height[b] > Height[m]
    BY <1>2 DEF Activate
  <2>2. Stored' = Stored /\ main' \subseteq Stored /\ mature \subseteq main'
    BY <1>0, <2>1 DEF Stored
  <2> QED
    BY <2>1, <2>2 DEF SubInv, SubmissionTypeOK, AcceptedStored
<1>3. ASSUME NEW b \in Blocks, Displace(b)
      PROVE  SubInv' /\ call' = call /\ faults' = faults
  BY <1>0, <1>3 DEF Displace, SubInv, SubmissionTypeOK, AcceptedStored, Stored
<1>4. ASSUME NEW b \in Blocks, Mature(b)
      PROVE  SubInv' /\ call' = call /\ faults' = faults
  BY <1>0, <1>4 DEF Mature, SubInv, SubmissionTypeOK, AcceptedStored, Stored
<1> QED
  BY <1>1, <1>2, <1>3, <1>4 DEF ChainStep
-------------------------------------------------------------------------------
(* The database and its writers *)

RowType      == [Heights -> [block : Blocks \cup {NoBlock}, confirmed : BOOLEAN]]
PayoutType   == [Blocks -> {"none", "pending", "paid"}]
RecordType   == [block : Blocks, next : Statements \ {"none"}] \cup {Idle}
MonitorType  == [step : MonitorSteps \cup Blocks, todo : SUBSET Blocks]

\* The parts of LedgerInv a step of the database's writers is about.
RowInv ==
  /\ row \in RowType /\ payout \in PayoutType /\ recording \in RecordType
  /\ monitor \in MonitorType /\ payments \in [Blocks -> Nat]
  /\ RecordedIsAccepted /\ CycleIsCurrent /\ PaymentsAccounted /\ PaidWasSent

BridgeType == authCache \subseteq Accounts /\ finder \in [Blocks -> Accounts \cup {Unknown}]

LEMMA LedgerInvParts == LedgerInv <=> SubInv /\ RowInv /\ BridgeType
  BY DEF LedgerInv, LedgerTypeOK, SubInv, RowInv, BridgeType, RowType, PayoutType, RecordType,
         MonitorType

\* What is paid stays as it is.
PaidStays ==
  \A b \in Blocks :
    payout[b] = "paid" => payout'[b] = "paid" /\ payments'[b] = payments[b]

LEMMA BlocksNamed ==
  /\ NoBlock \notin Blocks /\ Idle.block = NoBlock /\ Idle.next = "none"
  /\ \A b \in Blocks : b \notin MonitorSteps /\ Height[b] \in Heights
  BY LedgerAssumption DEF Idle, Heights

LEMMA LedgerInit0 == LedgerInit => LedgerInv
<1> SUFFICES ASSUME LedgerInit
             PROVE  SubInv /\ RowInv /\ BridgeType
  BY LedgerInvParts
<1>1. SubInv /\ BridgeType
  BY SubInvInit DEF LedgerInit, BridgeType
<1>2. faults = 0 /\ Resting \in MonitorType
  BY DEF LedgerInit, SubmissionInit, Resting, MonitorType, MonitorSteps
<1>3. CycleIsCurrent
  BY BlocksNamed DEF LedgerInit, CycleIsCurrent, Resting, MonitorSteps
<1>4. RecordedIsAccepted
  BY BlocksNamed DEF LedgerInit, RecordedIsAccepted
<1> QED
  BY <1>1, <1>2, <1>3, <1>4
  DEF LedgerInit, RowInv, RowType, PayoutType, RecordType, PaymentsAccounted, PaidWasSent

\* The calls move on; the rows do not change, and recording takes a new block or none.
LEMMA CallsOnly ==
  ASSUME RowInv, CallsMoveOn, UNCHANGED <<row, payout, monitor, payments>>,
         recording' \in RecordType, faults \in Nat, faults' \in Nat, faults <= faults',
         \A b \in Blocks : recording'.block = b =>
           call[b].step # "accepted" /\ call'[b].step = "accepted"
  PROVE  RowInv' /\ PaidStays
<1>1. RecordedIsAccepted'
  BY DEF RowInv, RecordedIsAccepted, CallsMoveOn
<1>2. PaymentsAccounted'
  BY DEF RowInv, PaymentsAccounted
<1> QED
  BY <1>1, <1>2 DEF RowInv, CycleIsCurrent, PaidWasSent, PaidStays

LEMMA FaultsType == SubInv => faults \in Nat
  BY BlockAssumption DEF SubInv, SubmissionTypeOK

LEMMA PoolRunsKeeps ==
  ASSUME SubInv, RowInv, NEW login \in Accounts \cup {Unknown}, PoolRuns(login)
  PROVE  SubInv' /\ RowInv' /\ PaidStays
<1>1. SubInv' /\ CallsMoveOn
  BY PoolStepKeeps DEF PoolRuns
<1>2. /\ UNCHANGED <<row, payout, monitor, payments>>
      /\ recording' = IF Accepted = {} THEN Idle
                      ELSE [block |-> CHOOSE b \in Accepted : TRUE, next |-> "block"]
  BY DEF PoolRuns
<1>3. faults' = faults
  BY DEF PoolRuns, PoolStep, FindBlock, SubmitAnswer, CheckAnswer
<1>4. CASE Accepted = {}
  BY <1>1, <1>2, <1>3, <1>4, CallsOnly, FaultsType, BlocksNamed DEF RecordType
<1>5. CASE Accepted # {}
  <2> DEFINE b == CHOOSE c \in Accepted : TRUE
  <2>1. b \in Accepted /\ recording' = [block |-> b, next |-> "block"]
    BY <1>2, <1>5
  <2> HIDE DEF b
  <2>2. b \in Blocks /\ call[b].step # "accepted" /\ call'[b].step = "accepted"
    BY <2>1 DEF Accepted
  <2>3. recording' \in RecordType /\ recording'.block = b
    BY <2>1, <2>2 DEF RecordType, Statements
  <2>4. \A o \in Blocks : recording'.block = o =>
          call[o].step # "accepted" /\ call'[o].step = "accepted"
    BY <2>2, <2>3
  <2>5. faults \in Nat /\ faults' \in Nat /\ faults <= faults'
    BY <1>3, FaultsType
  <2>6. UNCHANGED <<row, payout, monitor, payments>> /\ recording' \in RecordType
    BY <1>2, <2>3
  <2> QED
    BY <1>1, <2>4, <2>5, <2>6, CallsOnly
<1> QED
  BY <1>4, <1>5

LEMMA PoolDiesKeeps ==
  ASSUME SubInv, RowInv, PoolDies
  PROVE  SubInv' /\ RowInv' /\ PaidStays
<1>1. SubInv' /\ CallsMoveOn /\ faults' = faults + 1
  BY PoolCrashKeeps DEF PoolDies
<1>2. recording' = Idle /\ UNCHANGED <<row, payout, monitor, payments>>
  BY DEF PoolDies
<1> QED
  BY <1>1, <1>2, CallsOnly, FaultsType, BlocksNamed DEF RecordType

\* Steps that do not touch the submissions.
LEMMA SubmissionsIdle ==
  ASSUME SubInv, UNCHANGED <<call, has, main, mature>>,
         faults' \in {faults, faults + 1} /\ faults' \in 0 .. MaxFaults
  PROVE  SubInv' /\ faults \in Nat /\ faults' \in Nat /\ faults <= faults'
<1>1. faults \in Nat /\ Stored' = Stored
  BY FaultsType DEF Stored
<1> QED
  BY <1>1 DEF SubInv, SubmissionTypeOK, AcceptedStored

LEMMA FaultCounts ==
  ASSUME SubInv, Fault
  PROVE  faults' \in {faults, faults + 1} /\ faults' \in 0 .. MaxFaults
  BY BlockAssumption DEF SubInv, SubmissionTypeOK, Fault

LEMMA RecorderKeeps ==
  ASSUME SubInv, RowInv, Recorder \/ StatementFails
  PROVE  SubInv' /\ RowInv' /\ PaidStays
<1>0. /\ row \in RowType /\ payout \in PayoutType /\ payments \in [Blocks -> Nat]
      /\ recording \in RecordType
  BY DEF RowInv
<1>1. CASE StatementFails
  <2>1. SubInv' /\ faults \in Nat /\ faults' \in Nat /\ faults <= faults'
    BY <1>1, SubmissionsIdle, FaultCounts DEF StatementFails
  <2>2. /\ recording' = Idle /\ CallsMoveOn
        /\ UNCHANGED <<row, payout, monitor, payments>>
    BY <1>1 DEF StatementFails, CallsMoveOn
  <2> QED
    BY <2>1, <2>2, CallsOnly, BlocksNamed DEF RecordType
<1>2. ASSUME UNCHANGED submissionVars
      PROVE  SubInv' /\ faults' = faults /\ call' = call
  BY <1>2 DEF submissionVars, SubInv, SubmissionTypeOK, AcceptedStored, Stored
<1>3. ASSUME recording.next \in {"block", "round", "payout"}
      PROVE  recording.block \in Blocks /\ recording = [block |-> recording.block, next |-> recording.next]
  BY <1>0, <1>3, BlocksNamed DEF RecordType
<1>4. CASE WriteBlock
  <2>1. /\ UNCHANGED <<submissionVars, payout, monitor, payments>>
        /\ recording.next = "block" /\ recording.block \in Blocks
        /\ recording' = [block |-> recording.block, next |-> "round"]
        /\ row' = [row EXCEPT ![Height[recording.block]] =
                     [block |-> recording.block, confirmed |-> FALSE]]
    BY <1>3, <1>4 DEF WriteBlock
  <2>2. row' \in RowType /\ recording' \in RecordType /\ recording'.block = recording.block
    BY <1>0, <2>1 DEF RowType, RecordType, Statements
  <2>3. \A b \in Blocks : row'[Height[b]].block = b => row[Height[b]].block = b \/ recording.block = b
    BY <1>0, <2>1, BlocksNamed DEF RowType
  <2>4. RecordedIsAccepted'
    BY <1>2, <2>1, <2>2, <2>3 DEF RowInv, RecordedIsAccepted
  <2> QED
    BY <1>2, <2>1, <2>2, <2>4 DEF RowInv, CycleIsCurrent, PaymentsAccounted, PaidWasSent, PaidStays
<1>5. CASE ResetRound
  <2>1. /\ UNCHANGED <<submissionVars, row, payout, monitor, payments>>
        /\ recording.block \in Blocks
        /\ recording' = [block |-> recording.block, next |-> "payout"]
    BY <1>3, <1>5 DEF ResetRound
  <2>2. recording' \in RecordType /\ recording'.block = recording.block
    BY <2>1 DEF RecordType, Statements
  <2>3. RecordedIsAccepted'
    BY <1>2, <2>1, <2>2 DEF RowInv, RecordedIsAccepted
  <2> QED
    BY <1>2, <2>1, <2>2, <2>3 DEF RowInv, CycleIsCurrent, PaymentsAccounted, PaidWasSent, PaidStays
<1>6. CASE WritePayout
  <2> DEFINE b0 == recording.block
             status == IF finder[b0] \in authCache THEN "pending" ELSE payout[b0]
  <2>1. /\ UNCHANGED <<submissionVars, row, monitor, payments>>
        /\ b0 \in Blocks /\ recording' = Idle
        /\ payout' = [payout EXCEPT ![b0] = status]
    BY <1>3, <1>6 DEF WritePayout
  <2>2. payout[b0] = "none" /\ call[b0].step = "accepted"
    BY <2>1 DEF RowInv, RecordedIsAccepted
  <2>3. /\ payout' \in PayoutType /\ payout'[b0] \in {"none", "pending"}
        /\ \A b \in Blocks : b # b0 => payout'[b] = payout[b]
    BY <1>0, <2>1, <2>2 DEF PayoutType
  <2>4. RecordedIsAccepted'
    BY <1>2, <2>1, <2>2, <2>3, BlocksNamed DEF RowInv, RecordedIsAccepted
  <2>5. CycleIsCurrent'
    BY <2>1, <2>2, <2>3 DEF RowInv, CycleIsCurrent, MonitorType
  <2>6. PaymentsAccounted'
    BY <1>2, <2>1, <2>2, <2>3 DEF RowInv, PaymentsAccounted
  <2>7. PaidWasSent' /\ PaidStays
    BY <2>1, <2>2, <2>3 DEF RowInv, PaidWasSent, PaidStays
  <2> QED
    BY <1>2, <2>1, <2>3, <2>4, <2>5, <2>6, <2>7 DEF RowInv, RecordType
<1> QED
  BY <1>1, <1>4, <1>5, <1>6 DEF Recorder
\* The monitor changes its own state only.
LEMMA MonitorOnly ==
  ASSUME RowInv, NEW m \in MonitorType, monitor' = m,
         UNCHANGED <<call, row, payout, recording, payments>>,
         faults \in Nat, faults' \in Nat,
         \/ faults' = faults /\ monitor.step \notin Blocks
         \/ faults' = faults + 1,
         m.step \notin Blocks,
         m.step = "paying" => \A b \in m.todo : payout[b] = "pending"
  PROVE  RowInv' /\ PaidStays
<1>1. RecordedIsAccepted' /\ PaidWasSent'
  BY DEF RowInv, RecordedIsAccepted, PaidWasSent
<1>2. CycleIsCurrent'
  BY DEF CycleIsCurrent
<1>3. PaymentsAccounted'
  BY DEF RowInv, PaymentsAccounted
<1> QED
  BY <1>1, <1>2, <1>3 DEF RowInv, PaidStays

\* The cycle starts, reads, defers, ends, or is ended.
LEMMA CycleKeeps ==
  ASSUME SubInv, RowInv,
         \/ StartCycle \/ SelectPayouts \/ EndCycle \/ CycleFails
         \/ \E b \in Blocks : Defer(b)
  PROVE  SubInv' /\ RowInv' /\ PaidStays
<1>0. /\ monitor \in MonitorType /\ "resting" \notin Blocks /\ "confirming" \notin Blocks
      /\ "paying" \notin Blocks /\ faults \in Nat
  BY BlocksNamed, FaultsType DEF RowInv, MonitorSteps
<1>1. CASE CycleFails
  <2>1. SubInv' /\ faults' \in Nat /\ faults' = faults + 1
    BY <1>1, SubmissionsIdle, FaultCounts DEF CycleFails, Fault
  <2>2. /\ monitor' = Resting /\ Resting \in MonitorType
        /\ Resting.step = "resting" /\ UNCHANGED <<call, row, payout, recording, payments>>
    BY <1>1 DEF CycleFails, Resting, MonitorType, MonitorSteps
  <2> QED
    BY <1>0, <2>1, <2>2, MonitorOnly
<1>2. CASE StartCycle \/ SelectPayouts \/ EndCycle \/ \E b \in Blocks : Defer(b)
  <2>1. UNCHANGED <<submissionVars, row, payout, recording, payments>>
    BY <1>2 DEF StartCycle, SelectPayouts, EndCycle, Defer
  <2>2. SubInv' /\ faults' = faults /\ call' = call
    BY <2>1 DEF submissionVars, SubInv, SubmissionTypeOK, AcceptedStored, Stored
  <2>3. CASE StartCycle
    <3>0. /\ monitor'.step = "confirming" /\ monitor'.todo \in SUBSET Blocks
          /\ monitor' = [step |-> "confirming", todo |-> monitor'.todo]
      BY <2>3 DEF StartCycle
    <3>2. monitor.step = "resting"
      BY <2>3 DEF StartCycle, Resting
    <3>1. PICK m \in MonitorType : monitor' = m /\ m.step = "confirming" /\ monitor.step = "resting"
      BY <3>0, <3>2 DEF MonitorType, MonitorSteps
    <3> QED
      BY <1>0, <2>1, <2>2, <3>1, MonitorOnly
  <2>4. CASE SelectPayouts
    <3>1. PICK m \in MonitorType : /\ monitor' = m /\ m.step = "paying"
                                   /\ m.todo = {b \in Blocks : payout[b] = "pending"}
                                   /\ monitor.step = "confirming"
      BY <2>4 DEF SelectPayouts, MonitorType, MonitorSteps
    <3> QED
      BY <1>0, <2>1, <2>2, <3>1, MonitorOnly
  <2>5. CASE EndCycle
    <3>1. PICK m \in MonitorType : monitor' = m /\ m.step = "resting" /\ monitor.step = "paying"
      BY <2>5 DEF EndCycle, MonitorType, MonitorSteps, Resting
    <3> QED
      BY <1>0, <2>1, <2>2, <3>1, MonitorOnly
  <2>6. ASSUME NEW b \in Blocks, Defer(b)
        PROVE  SubInv' /\ RowInv' /\ PaidStays
    <3>1. PICK m \in MonitorType : /\ monitor' = m /\ m.step = "paying" /\ monitor.step = "paying"
                                   /\ m.todo = monitor.todo \ {b}
      BY <1>0, <2>6 DEF Defer, MonitorType
    <3>2. \A o \in m.todo : payout[o] = "pending"
      BY <3>1 DEF RowInv, CycleIsCurrent
    <3> QED
      BY <1>0, <2>1, <2>2, <3>1, <3>2, MonitorOnly
  <2> QED
    BY <1>2, <2>3, <2>4, <2>5, <2>6
<1> QED
  BY <1>1, <1>2

LEMMA ConfirmKeeps ==
  ASSUME SubInv, RowInv, NEW b \in Blocks, ConfirmBlock(b)
  PROVE  SubInv' /\ RowInv' /\ PaidStays
<1>1. /\ UNCHANGED <<submissionVars, payout, recording, payments>>
      /\ monitor.step = "confirming"
      /\ monitor' = [monitor EXCEPT !.todo = @ \ {b}]
      /\ row' = IF b \in mature THEN [row EXCEPT ![Height[b]].confirmed = TRUE] ELSE row
  BY DEF ConfirmBlock
<1>2. SubInv' /\ faults' = faults /\ call' = call
  BY <1>1 DEF submissionVars, SubInv, SubmissionTypeOK, AcceptedStored, Stored
<1>3. monitor' \in MonitorType /\ monitor'.step = "confirming" /\ "confirming" \notin Blocks
  BY <1>1, BlocksNamed DEF RowInv, MonitorType, MonitorSteps
<1>4. row' \in RowType /\ \A h \in Heights : row'[h].block = row[h].block
  BY <1>1, BlocksNamed DEF RowInv, RowType
<1>5. RecordedIsAccepted'
  BY <1>1, <1>2, <1>4, BlocksNamed DEF RowInv, RecordedIsAccepted
<1>6. PaymentsAccounted' /\ CycleIsCurrent'
  BY <1>1, <1>2, <1>3 DEF RowInv, PaymentsAccounted, CycleIsCurrent
<1> QED
  BY <1>1, <1>2, <1>3, <1>4, <1>5, <1>6 DEF RowInv, PaidWasSent, PaidStays

LEMMA SendKeeps ==
  ASSUME SubInv, RowInv, NEW b \in Blocks,
         Send(b) \/ \E paid \in BOOLEAN : CliFails(b, paid)
  PROVE  SubInv' /\ RowInv' /\ PaidStays
<1>0. /\ monitor \in MonitorType /\ payments \in [Blocks -> Nat] /\ "paying" \notin Blocks
      /\ "confirming" \notin Blocks /\ faults \in Nat
  BY BlocksNamed, FaultsType DEF RowInv, MonitorSteps
<1>1. CASE Send(b)
  <2>1. /\ UNCHANGED <<submissionVars, row, payout, recording>>
        /\ monitor.step = "paying" /\ b \in monitor.todo
        /\ payments' = [payments EXCEPT ![b] = payments[b] + 1]
        /\ monitor' = [monitor EXCEPT !.step = b]
    BY <1>1 DEF Send
  <2>2. SubInv' /\ faults' = faults /\ call' = call
    BY <2>1 DEF submissionVars, SubInv, SubmissionTypeOK, AcceptedStored, Stored
  <2>3. /\ monitor' \in MonitorType /\ monitor'.step = b /\ monitor'.todo = monitor.todo
        /\ payments' \in [Blocks -> Nat] /\ payments'[b] = payments[b] + 1
        /\ \A o \in Blocks : o # b => payments'[o] = payments[o]
    BY <1>0, <2>1 DEF MonitorType
  <2>4. \A o \in monitor.todo : payout[o] = "pending"
    BY <2>1 DEF RowInv, CycleIsCurrent
  <2>5. CycleIsCurrent'
    BY <1>0, <2>1, <2>3, <2>4 DEF CycleIsCurrent
  <2>6. PaymentsAccounted'
    BY <1>0, <2>1, <2>2, <2>3, <2>4 DEF RowInv, PaymentsAccounted
  <2>7. PaidWasSent' /\ PaidStays
    BY <1>0, <2>1, <2>3, <2>4 DEF RowInv, PaidWasSent, PaidStays
  <2>8. RecordedIsAccepted'
    BY <2>1, <2>2 DEF RowInv, RecordedIsAccepted
  <2> QED
    BY <2>1, <2>2, <2>3, <2>5, <2>6, <2>7, <2>8 DEF RowInv
<1>2. ASSUME NEW paid \in BOOLEAN, CliFails(b, paid)
      PROVE  SubInv' /\ RowInv' /\ PaidStays
  <2>1. /\ UNCHANGED <<call, has, main, mature, row, payout, recording>> /\ Fault
        /\ monitor.step \in {"confirming", "paying"} /\ b \in monitor.todo
        /\ paid => monitor.step = "paying"
        /\ payments' = [payments EXCEPT ![b] = IF paid THEN payments[b] + 1 ELSE payments[b]]
        /\ monitor' = [monitor EXCEPT !.todo = @ \ {b}]
    BY <1>2 DEF CliFails
  <2>2. SubInv' /\ faults' = faults + 1
    BY <2>1, SubmissionsIdle, FaultCounts DEF Fault
  <2>3. /\ monitor' \in MonitorType /\ monitor'.step = monitor.step /\ monitor'.todo \subseteq monitor.todo
        /\ payments' \in [Blocks -> Nat]
        /\ payments'[b] = payments[b] \/ (paid /\ payments'[b] = payments[b] + 1)
        /\ \A o \in Blocks : o # b => payments'[o] = payments[o]
    BY <1>0, <2>1 DEF MonitorType
  <2>4. paid => payout[b] = "pending"
    BY <2>1 DEF RowInv, CycleIsCurrent
  <2>5. CycleIsCurrent'
    BY <1>0, <2>1, <2>3 DEF RowInv, CycleIsCurrent
  <2>6. PaymentsAccounted'
    BY <1>0, <2>1, <2>2, <2>3, <2>4 DEF RowInv, PaymentsAccounted
  <2>7. PaidWasSent' /\ PaidStays
    BY <1>0, <2>1, <2>3, <2>4 DEF RowInv, PaidWasSent, PaidStays
  <2>8. RecordedIsAccepted'
    BY <2>1, <2>2 DEF RowInv, RecordedIsAccepted
  <2> QED
    BY <2>1, <2>2, <2>3, <2>5, <2>6, <2>7, <2>8 DEF RowInv
<1> QED
  BY <1>1, <1>2

LEMMA RecordPaidKeeps ==
  ASSUME SubInv, RowInv, NEW b \in Blocks, RecordPaid(b)
  PROVE  SubInv' /\ RowInv' /\ PaidStays
<1>0. /\ monitor \in MonitorType /\ payments \in [Blocks -> Nat] /\ payout \in PayoutType
      /\ "paying" \notin Blocks
  BY BlocksNamed DEF RowInv, MonitorSteps
<1>1. /\ UNCHANGED <<submissionVars, row, recording, payments>>
      /\ monitor.step = b
      /\ payout' = [payout EXCEPT ![b] = "paid"]
      /\ monitor' = [step |-> "paying", todo |-> monitor.todo \ {b}]
  BY DEF RecordPaid
<1>2. SubInv' /\ faults' = faults /\ call' = call
  BY <1>1 DEF submissionVars, SubInv, SubmissionTypeOK, AcceptedStored, Stored
<1>3. /\ monitor' \in MonitorType /\ payout' \in PayoutType
      /\ monitor'.step = "paying" /\ monitor'.todo = monitor.todo \ {b}
      /\ payout'[b] = "paid" /\ \A o \in Blocks : o # b => payout'[o] = payout[o]
  BY <1>0, <1>1 DEF MonitorType, MonitorSteps, PayoutType
<1>4. /\ b \in monitor.todo /\ payments[b] > 0
      /\ \A o \in monitor.todo : o \in Blocks /\ payout[o] = "pending"
  BY <1>0, <1>1 DEF RowInv, CycleIsCurrent, MonitorType
<1>5. CycleIsCurrent'
  BY <1>0, <1>3, <1>4 DEF CycleIsCurrent
<1>6. PaymentsAccounted'
  BY <1>0, <1>1, <1>2, <1>3 DEF RowInv, PaymentsAccounted
<1>7. PaidWasSent' /\ PaidStays
  BY <1>1, <1>3, <1>4 DEF RowInv, PaidWasSent, PaidStays
<1>8. RecordedIsAccepted'
  BY <1>1, <1>2, <1>3, <1>4 DEF RowInv, RecordedIsAccepted
<1> QED
  BY <1>1, <1>2, <1>3, <1>5, <1>6, <1>7, <1>8 DEF RowInv

\* Most steps leave the bridge's cache and the names of the finders alone.
LEMMA BridgeIdle ==
  ASSUME \/ Recorder \/ MonitorRuns \/ StatementFails \/ CycleFails
         \/ \E b \in Blocks, paid \in BOOLEAN : CliFails(b, paid)
  PROVE  UNCHANGED <<authCache, finder>>
<1>1. Recorder => UNCHANGED bridgeVars
  BY DEF Recorder, WriteBlock, ResetRound, WritePayout
<1>2. MonitorRuns => UNCHANGED bridgeVars
  BY DEF MonitorRuns, StartCycle, SelectPayouts, EndCycle, ConfirmBlock, Send, RecordPaid, Defer
<1> QED
  BY <1>1, <1>2 DEF StatementFails, CycleFails, CliFails, bridgeVars

LEMMA BridgeTypeKept ==
  ASSUME BridgeType, [LedgerNext]_allVars
  PROVE  BridgeType'
<1>1. CASE UNCHANGED allVars
  BY <1>1 DEF allVars, ledgerVars, bridgeVars, BridgeType
<1>2. ASSUME NEW login \in Accounts, NEW status \in {200, 401}, WorkerAuth(login, status)
      PROVE  BridgeType'
  BY <1>2 DEF WorkerAuth, BridgeType
<1>3. ASSUME NEW login \in authCache \cup {Unknown}, PoolRuns(login)
      PROVE  BridgeType'
  BY <1>3 DEF PoolRuns, BridgeType
<1>4. CASE Recorder \/ MonitorRuns
  BY <1>4, BridgeIdle DEF BridgeType
<1>5. CASE Failure
  BY <1>5, BridgeIdle DEF Failure, PoolDies, BridgeType
<1>6. CASE ChainStep /\ UNCHANGED ledgerVars
  BY <1>6 DEF ledgerVars, bridgeVars, BridgeType
<1> QED
  BY <1>1, <1>2, <1>3, <1>4, <1>5, <1>6 DEF LedgerNext

LEMMA LedgerStepKeeps == LedgerInv /\ [LedgerNext]_allVars => LedgerInv' /\ PaidStays
<1> SUFFICES ASSUME SubInv, RowInv, BridgeType, [LedgerNext]_allVars
             PROVE  SubInv' /\ RowInv' /\ PaidStays
  BY LedgerInvParts, BridgeTypeKept
  DEF LedgerInv, LedgerTypeOK, SubInv, RowInv, BridgeType, RowType, PayoutType, RecordType,
      MonitorType
<1>1. CASE UNCHANGED allVars
  <2>1. UNCHANGED <<call, has, main, mature, faults, row, payout, recording, monitor, payments>>
    BY <1>1 DEF allVars, submissionVars, ledgerVars
  <2> QED
    BY <2>1 DEF SubInv, SubmissionTypeOK, AcceptedStored, Stored, RowInv, RecordedIsAccepted,
                CycleIsCurrent, PaymentsAccounted, PaidWasSent, PaidStays
<1>2. ASSUME NEW login \in authCache \cup {Unknown}, PoolRuns(login)
      PROVE  SubInv' /\ RowInv' /\ PaidStays
  BY <1>2, PoolRunsKeeps DEF BridgeType
<1>7. ASSUME NEW login \in Accounts, NEW status \in {200, 401}, WorkerAuth(login, status)
      PROVE  SubInv' /\ RowInv' /\ PaidStays
  <2>1. UNCHANGED <<call, has, main, mature, faults, row, payout, recording, monitor, payments>>
    BY <1>7 DEF WorkerAuth, submissionVars
  <2> QED
    BY <2>1 DEF SubInv, SubmissionTypeOK, AcceptedStored, Stored, RowInv, RecordedIsAccepted,
                CycleIsCurrent, PaymentsAccounted, PaidWasSent, PaidStays
<1>3. CASE Recorder
  BY <1>3, RecorderKeeps
<1>4. CASE MonitorRuns
  BY <1>4, CycleKeeps, ConfirmKeeps, SendKeeps, RecordPaidKeeps DEF MonitorRuns
<1>5. CASE Failure
  BY <1>5, RecorderKeeps, PoolDiesKeeps, CycleKeeps, SendKeeps DEF Failure
<1>6. CASE ChainStep /\ UNCHANGED ledgerVars
  <2>1. SubInv' /\ call' = call /\ faults' = faults
    BY <1>6, ChainStepKeeps
  <2>2. UNCHANGED <<row, payout, recording, monitor, payments>>
    BY <1>6 DEF ledgerVars
  <2> QED
    BY <2>1, <2>2 DEF RowInv, RecordedIsAccepted, CycleIsCurrent, PaymentsAccounted,
                      PaidWasSent, PaidStays
<1> QED
  BY <1>1, <1>2, <1>3, <1>4, <1>5, <1>6, <1>7 DEF LedgerNext

\* Types, acceptance before recording, pending before payment.
LEMMA LedgerInvariant == LedgerSpec => []LedgerInv
<1>1. LedgerInv /\ [LedgerNext]_allVars => LedgerInv'
  BY LedgerStepKeeps
<1> QED
  BY <1>1, LedgerInit0, PTL DEF LedgerSpec

\* Type correctness of the submissions, the database and its writers.
THEOREM LedgerTypeCorrect == LedgerSpec => []LedgerTypeOK
<1>1. LedgerInv => LedgerTypeOK
  BY DEF LedgerInv
<1> QED
  BY <1>1, LedgerInvariant, PTL

\* Whatever the daemons answer and whenever the pool dies, only a block that a
\* daemon stores is recorded and credited (CheckBlockAccepted, recordBlock).
THEOREM OnlyStoredBlocksCredited == LedgerSpec => []OnlyStoredCredited
<1>1. LedgerInv => OnlyStoredCredited
  BY DEF LedgerInv, OnlyStoredCredited, RecordedIsAccepted, AcceptedStored
<1> QED
  BY <1>1, LedgerInvariant, PTL

\* A row is marked paid only after its payment was sent (payout_monitor.py,
\* cycle).
THEOREM PaidAlwaysSent == LedgerSpec => []PaidWasSent
<1>1. LedgerInv => PaidWasSent
  BY DEF LedgerInv
<1> QED
  BY <1>1, LedgerInvariant, PTL

\* For any number of failures, a payout is paid at most once more than there
\* were failures: without one, never twice.
THEOREM DoublePaymentTakesFailure == LedgerSpec => []RepaidOnlyByFailure
<1>1. ASSUME LedgerInv
      PROVE  RepaidOnlyByFailure
  <2>1. /\ faults \in Nat /\ payments \in [Blocks -> Nat] /\ PaymentsAccounted
    BY <1>1, LedgerInvParts, FaultsType DEF RowInv
  <2> QED
    BY <2>1 DEF PaymentsAccounted, RepaidOnlyByFailure
<1> QED
  BY <1>1, LedgerInvariant, PTL

\* What is marked paid stays so and is not paid again, by any later cycle.
THEOREM PaidForGood == LedgerSpec => PaidIsFinal
<1>1. LedgerInv /\ [LedgerNext]_allVars => [PaidStays]_allVars
  BY LedgerStepKeeps
<1>2. LedgerInv /\ [LedgerNext]_allVars
        => [\A b \in Blocks : payout[b] = "paid" => payout'[b] = "paid"
                              /\ payments'[b] = payments[b]]_allVars
  BY <1>1 DEF PaidStays
<1> QED
  BY <1>2, LedgerInvariant, PTL DEF LedgerSpec, PaidIsFinal
-------------------------------------------------------------------------------
(* What a failure costs *)

LEMMA CreditInit == LedgerInit => NamedIsCached /\ CreditedUnlessFailed /\ ConfirmedHeightMature
<1> SUFFICES ASSUME LedgerInit
             PROVE  NamedIsCached /\ CreditedUnlessFailed /\ ConfirmedHeightMature
  OBVIOUS
<1>1. \A b \in Blocks : call[b].step = "none" /\ finder[b] = Unknown
  BY SettledType DEF LedgerInit, SubmissionInit, Steps
<1>2. NamedIsCached /\ Uncredited = {} /\ faults = 0
  BY <1>1 DEF NamedIsCached, Uncredited, LedgerInit, SubmissionInit
<1>3. ConfirmedHeightMature
  BY DEF LedgerInit, ConfirmedHeightMature
<1> QED
  BY <1>2, <1>3, FS_EmptySet DEF CreditedUnlessFailed

\* At most the block being recorded loses its credit, and then it is a failure.
LEMMA CreditCounts ==
  ASSUME CreditedUnlessFailed, faults \in Nat,
         \/ Uncredited' \subseteq Uncredited /\ faults' \in {faults, faults + 1}
         \/ Uncredited' \subseteq Uncredited \cup {recording.block} /\ faults' = faults + 1
  PROVE  CreditedUnlessFailed'
<1>1. IsFiniteSet(Uncredited) /\ Cardinality(Uncredited) \in Nat
  BY BlockAssumption, FS_Subset, FS_CardinalityType DEF Uncredited
<1> DEFINE more == Uncredited \cup {recording.block}
<1>0. /\ IsFiniteSet(more)
      /\ Cardinality(more) = IF recording.block \in Uncredited THEN Cardinality(Uncredited)
                             ELSE Cardinality(Uncredited) + 1
  BY <1>1, FS_AddElement, Zenon
<1> HIDE DEF more
<1>2. IsFiniteSet(more) /\ Cardinality(more) \in Nat
      /\ Cardinality(more) <= Cardinality(Uncredited) + 1
  BY <1>0, <1>1
<1>3. CASE Uncredited' \subseteq Uncredited /\ faults' \in {faults, faults + 1}
  <2>1. Cardinality(Uncredited') \in Nat /\ Cardinality(Uncredited') <= Cardinality(Uncredited)
    BY <1>1, <1>3, FS_Subset, FS_CardinalityType
  <2> QED
    BY <1>1, <1>3, <2>1 DEF CreditedUnlessFailed
<1>4. CASE Uncredited' \subseteq more /\ faults' = faults + 1
  <2>1. Cardinality(Uncredited') \in Nat /\ Cardinality(Uncredited') <= Cardinality(more)
    BY <1>2, <1>4, FS_Subset, FS_CardinalityType
  <2> QED
    BY <1>1, <1>2, <1>4, <2>1 DEF CreditedUnlessFailed
<1> QED
  BY <1>3, <1>4 DEF more

\* Only the call of one block moves on in a step of the pool.
LEMMA OneCallMoves ==
  ASSUME SubInv, PoolStep
  PROVE  /\ faults' = faults /\ mature' = mature
         /\ \E b \in Blocks : \A o \in Blocks : o # b => call'[o] = call[o]
<1>1. call \in [Blocks -> [step : Steps, answers : [Daemons -> Answers]]]
  BY DEF SubInv, SubmissionTypeOK
<1>2. PICK b \in Blocks :
        \/ FindBlock(b)
        \/ \E d \in Daemons, stored \in BOOLEAN, answer \in {"fine", "failed"} :
             SubmitAnswer(b, d, stored, answer)
        \/ \E d \in Daemons, error \in BOOLEAN : CheckAnswer(b, d, error)
  BY DEF PoolStep
<1>3. \A o \in Blocks : o # b => call'[o] = call[o]
  BY <1>1, <1>2 DEF FindBlock, SubmitAnswer, CheckAnswer, Answered
<1> QED
  BY <1>2, <1>3 DEF FindBlock, SubmitAnswer, CheckAnswer

LEMMA PoolRunsCredits ==
  ASSUME SubInv, RowInv, NamedIsCached, CreditedUnlessFailed,
         NEW login \in authCache \cup {Unknown}, PoolRuns(login)
  PROVE  NamedIsCached' /\ CreditedUnlessFailed'
<1>1. CallsMoveOn /\ faults \in Nat
  BY PoolStepKeeps, FaultsType DEF PoolRuns
<1>2. PICK b \in Blocks : /\ faults' = faults
                          /\ \A o \in Blocks : o # b => call'[o] = call[o]
  BY OneCallMoves DEF PoolRuns
<1>3. /\ recording.block \notin Blocks /\ UNCHANGED <<authCache, payout>>
      /\ finder' = [o \in Blocks |-> IF o \in Submitting THEN login ELSE finder[o]]
  BY BlocksNamed DEF PoolRuns
<1>4. \A o \in Blocks : call'[o].step \in {"checking", "accepted"} => finder'[o] = finder[o]
  BY <1>3 DEF Submitting
<1>5. IF Accepted = {} THEN recording'.block \notin Blocks
      ELSE recording'.block = CHOOSE o \in Accepted : TRUE
  BY BlocksNamed DEF PoolRuns
<1>6. Accepted \subseteq {b}
  BY <1>2 DEF Accepted
<1>7. \A o \in Blocks : recording'.block = o <=> o \in Accepted
  <2>1. Accepted = {} \/ (CHOOSE o \in Accepted : TRUE) \in Accepted
    OBVIOUS
  <2> QED
    BY <1>5, <1>6, <2>1 DEF Accepted
<1>8. Uncredited' \subseteq Uncredited
  <2>1. \A o \in Blocks : call'[o].step = "accepted" /\ o \notin Accepted => call[o].step = "accepted"
    BY <1>1 DEF CallsMoveOn, Accepted
  <2> QED
    BY <1>3, <1>4, <1>7, <2>1 DEF Uncredited
<1>9. NamedIsCached'
  <2> SUFFICES ASSUME NEW o \in Blocks,
                      call'[o].step \in {"submitting", "checking"} \/ recording'.block = o
               PROVE  finder'[o] \in authCache \cup {Unknown}
    BY <1>3 DEF NamedIsCached
  <2>1. CASE o \in Submitting
    BY <1>3, <2>1
  <2>2. CASE o \notin Submitting
    <3>1. call[o].step \in {"submitting", "checking"}
      BY <1>1, <1>7, <2>2 DEF CallsMoveOn, Submitting, Accepted
    <3> QED
      BY <1>3, <2>2, <3>1 DEF NamedIsCached
  <2> QED
    BY <2>1, <2>2
<1> QED
  BY <1>1, <1>2, <1>8, <1>9, CreditCounts

\* The failures of the pool's process and of the database.
LEMMA FailureCredits ==
  ASSUME SubInv, NamedIsCached, CreditedUnlessFailed, StatementFails \/ PoolDies
  PROVE  NamedIsCached' /\ CreditedUnlessFailed'
<1>1. faults \in Nat /\ faults' = faults + 1 /\ CallsMoveOn
  BY FaultsType, PoolCrashKeeps DEF StatementFails, Fault, PoolDies, CallsMoveOn
<1>2. /\ recording' = Idle /\ UNCHANGED <<finder, payout>>
      /\ \A b \in Blocks : call'[b].step = "accepted" <=> call[b].step = "accepted"
  <2>1. PoolDies => \A b \in Blocks : call'[b].step = "accepted" => call[b].step = "accepted"
    BY SettledType DEF PoolDies, PoolCrash, Steps
  <2> QED
    BY <1>1, <2>1 DEF StatementFails, PoolDies, CallsMoveOn, bridgeVars
<1>3. Uncredited' \subseteq Uncredited \cup {recording.block}
  BY <1>2 DEF Uncredited
<1>4. ASSUME StatementFails
      PROVE  NamedIsCached'
  BY <1>4, <1>2, BlocksNamed DEF StatementFails, bridgeVars, NamedIsCached
<1>5. ASSUME PoolDies
      PROVE  NamedIsCached'
  <2>1. \A b \in Blocks : call'[b].step \notin {"submitting", "checking"}
    BY <1>5, SettledType DEF PoolDies, PoolCrash, Steps
  <2> QED
    BY <1>2, <2>1, BlocksNamed DEF NamedIsCached
<1> QED
  BY <1>1, <1>3, <1>4, <1>5, CreditCounts

LEMMA RecorderCredits ==
  ASSUME SubInv, RowInv, NamedIsCached, CreditedUnlessFailed, Recorder
  PROVE  NamedIsCached' /\ CreditedUnlessFailed'
<1>0. faults \in Nat /\ recording \in RecordType /\ payout \in PayoutType
  BY FaultsType DEF RowInv
<1>1. UNCHANGED <<call, faults, authCache, finder>>
  BY BridgeIdle DEF Recorder, WriteBlock, ResetRound, WritePayout, submissionVars
<1>2. CASE WriteBlock \/ ResetRound
  <2>1. recording'.block = recording.block /\ payout' = payout
    BY <1>0, <1>2, BlocksNamed DEF WriteBlock, ResetRound, RecordType
  <2>2. NamedIsCached'
    BY <1>1, <2>1 DEF NamedIsCached
  <2>3. Uncredited' \subseteq Uncredited
    BY <1>1, <2>1 DEF Uncredited
  <2> QED
    BY <1>0, <1>1, <2>2, <2>3, CreditCounts
<1>3. CASE WritePayout
  <2> DEFINE b0 == recording.block
  <2>1. /\ b0 \in Blocks /\ recording' = Idle
        /\ payout' = [payout EXCEPT ![b0] = IF finder[b0] \in authCache THEN "pending"
                                            ELSE payout[b0]]
    BY <1>0, <1>3, BlocksNamed DEF WritePayout, RecordType
  <2>2. NamedIsCached'
    BY <1>1, <2>1, BlocksNamed DEF NamedIsCached
  <2>3. finder[b0] \in authCache \/ finder[b0] = Unknown
    BY <2>1 DEF NamedIsCached
  <2>4. \A b \in Blocks : b # b0 => payout'[b] = payout[b]
    BY <1>0, <2>1 DEF PayoutType
  <2>5. finder[b0] # Unknown => payout'[b0] = "pending"
    BY <1>0, <2>1, <2>3 DEF PayoutType
  <2>6. Uncredited' \subseteq Uncredited
    BY <1>1, <2>1, <2>4, <2>5 DEF Uncredited
  <2> QED
    BY <1>0, <1>1, <2>2, <2>6, CreditCounts
<1> QED
  BY <1>2, <1>3 DEF Recorder

\* Whatever else happens leaves the calls, what is being recorded and the
\* finders alone, and no payout disappears.
LEMMA OthersCredit ==
  ASSUME NamedIsCached, CreditedUnlessFailed, faults \in Nat,
         UNCHANGED <<call, recording, finder>>, authCache \subseteq authCache',
         faults' \in {faults, faults + 1},
         \A b \in Blocks : payout'[b] = "none" => payout[b] = "none"
  PROVE  NamedIsCached' /\ CreditedUnlessFailed'
<1>1. NamedIsCached'
  BY DEF NamedIsCached
<1>2. Uncredited' \subseteq Uncredited
  BY DEF Uncredited
<1> QED
  BY <1>1, <1>2, CreditCounts

LEMMA CreditStep ==
  ASSUME LedgerInv, NamedIsCached, CreditedUnlessFailed, [LedgerNext]_allVars
  PROVE  NamedIsCached' /\ CreditedUnlessFailed'
<1>0. SubInv /\ RowInv /\ BridgeType /\ faults \in Nat
  BY LedgerInvParts, FaultsType
<1> DEFINE Idly == UNCHANGED <<call, recording, finder>> /\ authCache \subseteq authCache'
                   /\ \A b \in Blocks : payout'[b] = "none" => payout[b] = "none"
<1>1. CASE UNCHANGED allVars
  <2>1. Idly /\ faults' = faults
    BY <1>1 DEF allVars, submissionVars, ledgerVars, bridgeVars
  <2> QED
    BY <1>0, <2>1, OthersCredit
<1>2. ASSUME NEW login \in Accounts, NEW status \in {200, 401}, WorkerAuth(login, status)
      PROVE  NamedIsCached' /\ CreditedUnlessFailed'
  <2>1. Idly /\ faults' = faults
    BY <1>2 DEF WorkerAuth, submissionVars
  <2> QED
    BY <1>0, <2>1, OthersCredit
<1>3. ASSUME NEW login \in authCache \cup {Unknown}, PoolRuns(login)
      PROVE  NamedIsCached' /\ CreditedUnlessFailed'
  BY <1>0, <1>3, PoolRunsCredits
<1>4. CASE Recorder
  BY <1>0, <1>4, RecorderCredits
<1>5. CASE MonitorRuns
  <2>1. UNCHANGED <<call, faults, recording>>
    BY <1>5 DEF MonitorRuns, StartCycle, SelectPayouts, EndCycle, ConfirmBlock, Send,
                RecordPaid, Defer, submissionVars
  <2>2. UNCHANGED <<authCache, finder>>
    BY <1>5, BridgeIdle
  <2>3. \A b \in Blocks : payout'[b] = "none" => payout[b] = "none"
    BY <1>0, <1>5 DEF MonitorRuns, StartCycle, SelectPayouts, EndCycle, ConfirmBlock, Send,
                      RecordPaid, Defer, RowInv, PayoutType
  <2> QED
    BY <1>0, <2>1, <2>2, <2>3, OthersCredit
<1>6. CASE StatementFails \/ PoolDies
  BY <1>0, <1>6, FailureCredits
<1>7. CASE CycleFails \/ \E b \in Blocks, paid \in BOOLEAN : CliFails(b, paid)
  <2>1. Idly /\ faults' = faults + 1
    BY <1>7, BridgeIdle DEF CycleFails, CliFails, Fault
  <2> QED
    BY <1>0, <2>1, OthersCredit
<1>8. CASE ChainStep /\ UNCHANGED ledgerVars
  <2>1. Idly /\ faults' = faults
    BY <1>0, <1>8, ChainStepKeeps DEF ledgerVars, bridgeVars
  <2> QED
    BY <1>0, <2>1, OthersCredit
<1> QED
  BY <1>1, <1>2, <1>3, <1>4, <1>5, <1>6, <1>7, <1>8 DEF LedgerNext, Failure

LEMMA MatureGrows ==
  ASSUME LedgerInv, [LedgerNext]_allVars
  PROVE  mature \subseteq mature'
<1>1. PoolStep => mature' = mature
  BY OneCallMoves, LedgerInvParts
<1>2. ChainStep => mature \subseteq mature'
  BY DEF ChainStep, Relay, Activate, Displace, Mature
<1>3. MonitorRuns \/ Recorder => mature' = mature
  BY DEF MonitorRuns, StartCycle, SelectPayouts, EndCycle, ConfirmBlock, Send, RecordPaid, Defer,
         Recorder, WriteBlock, ResetRound, WritePayout, submissionVars
<1>4. Failure => mature' = mature
  BY DEF Failure, StatementFails, PoolDies, PoolCrash, CycleFails, CliFails
<1> QED
  BY <1>1, <1>2, <1>3, <1>4
  DEF LedgerNext, PoolRuns, WorkerAuth, allVars, submissionVars

LEMMA ConfirmedStep ==
  ASSUME LedgerInv, ConfirmedHeightMature, [LedgerNext]_allVars
  PROVE  ConfirmedHeightMature'
<1>0. row \in RowType /\ mature \subseteq mature' /\ recording \in RecordType
  BY LedgerInvParts, MatureGrows DEF RowInv
<1>1. \A h \in Heights :
        row'[h].confirmed => row[h].confirmed \/ \E b \in mature : Height[b] = h
  <2>1. CASE row' = row
    BY <2>1
  <2>2. CASE WriteBlock
    <3>1. recording.block \in Blocks
      BY <1>0, <2>2, BlocksNamed DEF WriteBlock, RecordType
    <3>2. row' = [row EXCEPT ![Height[recording.block]] =
                    [block |-> recording.block, confirmed |-> FALSE]]
      BY <2>2 DEF WriteBlock
    <3> QED
      BY <1>0, <3>1, <3>2, BlocksNamed DEF RowType
  <2>3. ASSUME NEW b \in Blocks, ConfirmBlock(b)
        PROVE  \A h \in Heights :
                 row'[h].confirmed => row[h].confirmed \/ \E c \in mature : Height[c] = h
    BY <1>0, <2>3, BlocksNamed DEF ConfirmBlock, RowType
  <2>4. MonitorRuns => row' = row \/ \E b \in Blocks : ConfirmBlock(b)
    BY DEF MonitorRuns, StartCycle, SelectPayouts, EndCycle, Send, RecordPaid, Defer
  <2>5. Recorder => row' = row \/ WriteBlock
    BY DEF Recorder, ResetRound, WritePayout
  <2>6. Failure => row' = row
    BY DEF Failure, StatementFails, PoolDies, CycleFails, CliFails
  <2> QED
    BY <2>1, <2>2, <2>3, <2>4, <2>5, <2>6
    DEF LedgerNext, PoolRuns, WorkerAuth, allVars, ledgerVars
<1> QED
  BY <1>0, <1>1 DEF ConfirmedHeightMature

\* A failure costs the credit of at most one block, for any number of blocks,
\* miners and failures (recordBlock and its cache of accounts).
THEOREM FailureCostsOneCredit == LedgerSpec => []CreditedUnlessFailed
<1> DEFINE Inv == NamedIsCached /\ CreditedUnlessFailed
<1>1. LedgerInit => Inv
  BY CreditInit
<1>2. LedgerInv /\ Inv /\ [LedgerNext]_allVars => Inv'
  BY CreditStep
<1>3. Inv => CreditedUnlessFailed
  OBVIOUS
<1> HIDE DEF Inv
<1> QED
  BY <1>1, <1>2, <1>3, LedgerInvariant, PTL DEF LedgerSpec

\* A height is confirmed only when one of its blocks has matured, however the
\* rows are replaced while the monitor is at work (payout_monitor.py, cycle).
THEOREM ConfirmedHasMatured == LedgerSpec => []ConfirmedHeightMature
<1>1. LedgerInit => ConfirmedHeightMature
  BY CreditInit
<1>2. LedgerInv /\ ConfirmedHeightMature /\ [LedgerNext]_allVars => ConfirmedHeightMature'
  BY ConfirmedStep
<1> QED
  BY <1>1, <1>2, LedgerInvariant, PTL DEF LedgerSpec
===============================================================================
