------------------------------ MODULE PayoutLedger ------------------------------
(***************************************************************************)
(* The ledger in the portal's database and its two writers: the pool       *)
(* process, which records a block it found (portal_bridge.js, recordBlock, *)
(* called from the share handler of init.js), and the payout monitor       *)
(* (payout_monitor.py), a process of its own that confirms blocks and pays *)
(* from the pool's wallet.  Every SQL statement commits on its own, so     *)
(* each is a step.  Worker statistics and round_shares, which nothing      *)
(* reads back, are left out; the statement that resets the round is kept   *)
(* as a place where recordBlock can fail.  Connections end with the pool's *)
(* process: every miner authorizes anew before it submits to the next one. *)
(***************************************************************************)
EXTENDS BlockSubmission, Coinbase

CONSTANTS
  NoBlock,    \* no row at a height; no block being recorded
  Accounts,   \* logins the portal has an account for
  Unknown,    \* any other name a share can carry
  Payable,    \* blocks whose finder has a payout address, and enough to pay
  Reward,     \* coinbasevalue, the same for every block
  Fee,        \* what the network takes for a payment
  Float       \* what else the wallet holds

MonitorSteps == {"resting", "confirming", "paying"}

ASSUME LedgerAssumption ==
  /\ NoBlock \notin Blocks /\ Unknown \notin Accounts /\ Payable \subseteq Blocks
  /\ Blocks \cap MonitorSteps = {}
  /\ {Reward, Fee, Float} \subseteq Nat

VARIABLES
  authCache,  \* logins in the bridge's cache of accounts
  finder,     \* finder[b]: the worker named by the share that solved b
  row,        \* pool_blocks: the row of each height
  payout,     \* pool_payouts: status of the row of each block, or "none"
  recording,  \* the block recordBlock is at, and its next statement
  monitor,    \* the payout monitor: its step and the rows it still has to do
  payments    \* payments[b]: payments the wallet made for the row of b

bridgeVars == <<authCache, finder>>
ledgerVars == <<bridgeVars, row, payout, recording, monitor, payments>>
allVars    == <<submissionVars, ledgerVars>>

Statements == {"none", "block", "round", "payout"}
Heights    == {Height[b] : b \in Blocks}
Idle       == [block |-> NoBlock, next |-> "none"]
Resting    == [step |-> "resting", todo |-> {}]

Balance == Float + RewardToPool(Reward) * Cardinality(mature)
Sent    == UNION {{b} \X (1 .. payments[b]) : b \in Blocks}
Funded  == Balance >= (CreditFor(Reward) + Fee) * (Cardinality(Sent) + 1)

-------------------------------------------------------------------------------
(* The pool process.  JavaScript and better-sqlite3 are synchronous: nothing *)
(* else runs in it before recordBlock is through.                            *)

\* A slip: a rig that is refused takes the login's entry with it.
ForgetRefused(login, status) ==
  /\ recording = Idle
  /\ authCache' = IF status = 200 THEN authCache \cup {login} ELSE authCache \ {login}
  /\ UNCHANGED <<submissionVars, finder, row, payout, recording, monitor, payments>>

\* The portal answers a workerAuth request; an entry of the cache stays.
WorkerAuth(login, status) ==
  /\ recording = Idle
  /\ authCache' = IF status = 200 THEN authCache \cup {login} ELSE authCache
  /\ UNCHANGED <<submissionVars, finder, row, payout, recording, monitor, payments>>

Submitting == {b \in Blocks : call[b].step = "none" /\ call'[b].step = "submitting"}
Accepted   == {b \in Blocks : call[b].step = "checking" /\ call'[b].step = "accepted"}

\* A step of BlockSubmission.  A share that solves a block comes from an
\* authorized connection and names one of the authorized logins, or none the
\* portal knows; an accepted block is handed to recordBlock.
PoolRuns(login) ==
  /\ recording = Idle
  /\ PoolStep
  /\ Submitting # {} => authCache # {}
  /\ finder' = [b \in Blocks |-> IF b \in Submitting THEN login ELSE finder[b]]
  /\ recording' = IF Accepted = {} THEN Idle
                  ELSE [block |-> CHOOSE b \in Accepted : TRUE, next |-> "block"]
  /\ UNCHANGED <<authCache, row, payout, monitor, payments>>

\* INSERT OR REPLACE INTO pool_blocks
WriteBlock ==
  /\ recording.next = "block"
  /\ row' = [row EXCEPT ![Height[recording.block]] =
               [block |-> recording.block, confirmed |-> FALSE]]
  /\ recording' = [recording EXCEPT !.next = "round"]
  /\ UNCHANGED <<submissionVars, payout, monitor, payments, bridgeVars>>

\* UPDATE pool_round
ResetRound ==
  /\ recording.next = "round"
  /\ recording' = [recording EXCEPT !.next = "payout"]
  /\ UNCHANGED <<submissionVars, row, payout, monitor, payments, bridgeVars>>

\* INSERT INTO pool_payouts, if the login's account is in the cache.
WritePayout ==
  /\ recording.next = "payout"
  /\ payout' = [payout EXCEPT ![recording.block] =
                  IF finder[recording.block] \in authCache THEN "pending" ELSE @]
  /\ recording' = Idle
  /\ UNCHANGED <<submissionVars, row, monitor, payments, bridgeVars>>

\* The database stays busy for busy_timeout: the statement throws, init.js
\* catches, and the statements after it are not run.
StatementFails ==
  /\ recording # Idle
  /\ Fault
  /\ recording' = Idle
  /\ UNCHANGED <<call, has, main, mature, row, payout, monitor, payments, bridgeVars>>

PoolDies ==
  /\ PoolCrash
  /\ recording' = Idle /\ authCache' = {}
  /\ UNCHANGED <<finder, row, payout, monitor, payments>>

-------------------------------------------------------------------------------
(* The payout monitor *)

\* cycle: the pending blocks are read ...
StartCycle ==
  /\ monitor = Resting
  /\ monitor' = [step |-> "confirming",
                 todo |-> {b \in Blocks : row[Height[b]] = [block |-> b, confirmed |-> FALSE]}]
  /\ UNCHANGED <<submissionVars, row, payout, recording, payments, bridgeVars>>

\* A slip: a block in the best chain counts as confirmed.
ConfirmEarly(b) ==
  /\ monitor.step = "confirming" /\ b \in monitor.todo
  /\ monitor' = [monitor EXCEPT !.todo = @ \ {b}]
  /\ row' = IF b \in main THEN [row EXCEPT ![Height[b]].confirmed = TRUE] ELSE row
  /\ UNCHANGED <<submissionVars, payout, recording, payments, bridgeVars>>

\* ... and each is looked up; the row of its height is updated.
ConfirmBlock(b) ==
  /\ monitor.step = "confirming" /\ b \in monitor.todo
  /\ monitor' = [monitor EXCEPT !.todo = @ \ {b}]
  /\ row' = IF b \in mature THEN [row EXCEPT ![Height[b]].confirmed = TRUE] ELSE row
  /\ UNCHANGED <<submissionVars, payout, recording, payments, bridgeVars>>

\* A slip: every payout is read, whatever its status.
SelectAllPayouts ==
  /\ monitor.step = "confirming" /\ monitor.todo = {}
  /\ monitor' = [step |-> "paying", todo |-> {b \in Blocks : payout[b] # "none"}]
  /\ UNCHANGED <<submissionVars, row, payout, recording, payments, bridgeVars>>

\* The pending payouts are read.
SelectPayouts ==
  /\ monitor.step = "confirming" /\ monitor.todo = {}
  /\ monitor' = [step |-> "paying", todo |-> {b \in Blocks : payout[b] = "pending"}]
  /\ UNCHANGED <<submissionVars, row, payout, recording, payments, bridgeVars>>

\* sendtoaddress returns a txid ...
Send(b) ==
  /\ monitor.step = "paying" /\ b \in monitor.todo
  /\ b \in Payable /\ Funded
  /\ payments' = [payments EXCEPT ![b] = @ + 1]
  /\ monitor' = [monitor EXCEPT !.step = b]
  /\ UNCHANGED <<submissionVars, row, payout, recording, bridgeVars>>

\* ... and the row is marked paid.
RecordPaid(b) ==
  /\ monitor.step = b
  /\ payout' = [payout EXCEPT ![b] = "paid"]
  /\ monitor' = [step |-> "paying", todo |-> monitor.todo \ {b}]
  /\ UNCHANGED <<submissionVars, row, recording, payments, bridgeVars>>

\* A slip: a send that was put off marks the row as well.
DeferAsPaid(b) ==
  /\ monitor.step = "paying" /\ b \in monitor.todo
  /\ b \notin Payable \/ ~Funded
  /\ payout' = [payout EXCEPT ![b] = "paid"]
  /\ monitor' = [monitor EXCEPT !.todo = @ \ {b}]
  /\ UNCHANGED <<submissionVars, row, recording, payments, bridgeVars>>

\* Nothing to send to, too little to send, or "Insufficient funds".
Defer(b) ==
  /\ monitor.step = "paying" /\ b \in monitor.todo
  /\ b \notin Payable \/ ~Funded
  /\ monitor' = [monitor EXCEPT !.todo = @ \ {b}]
  /\ UNCHANGED <<submissionVars, row, payout, recording, payments, bridgeVars>>

EndCycle ==
  /\ monitor.step = "paying" /\ monitor.todo = {}
  /\ monitor' = Resting
  /\ UNCHANGED <<submissionVars, row, payout, recording, payments, bridgeVars>>

\* getblock or sendtoaddress fails or takes more than 30 seconds, in which the
\* wallet may have paid; the row is left for the next cycle.
CliFails(b, paid) ==
  /\ b \in monitor.todo /\ monitor.step \in {"confirming", "paying"}
  /\ paid => monitor.step = "paying" /\ b \in Payable /\ Funded
  /\ Fault
  /\ payments' = [payments EXCEPT ![b] = IF paid THEN @ + 1 ELSE @]
  /\ monitor' = [monitor EXCEPT !.todo = @ \ {b}]
  /\ UNCHANGED <<call, has, main, mature, row, payout, recording, bridgeVars>>

\* A slip: the loop does not survive an exception.
CycleEndsLoop ==
  /\ monitor # Resting
  /\ Fault
  /\ monitor' = [step |-> "dead", todo |-> {}]
  /\ UNCHANGED <<call, has, main, mature, row, payout, recording, payments, bridgeVars>>

\* A locked database ends the cycle, caught by main; so does the process being
\* killed and started again.
CycleFails ==
  /\ monitor # Resting
  /\ Fault
  /\ monitor' = Resting
  /\ UNCHANGED <<call, has, main, mature, row, payout, recording, payments, bridgeVars>>

-------------------------------------------------------------------------------
LedgerInit ==
  /\ SubmissionInit
  /\ authCache = {} /\ finder = [b \in Blocks |-> Unknown]
  /\ row = [h \in Heights |-> [block |-> NoBlock, confirmed |-> FALSE]]
  /\ payout = [b \in Blocks |-> "none"]
  /\ recording = Idle /\ monitor = Resting
  /\ payments = [b \in Blocks |-> 0]

Recorder ==
  \/ WriteBlock \/ ResetRound \/ WritePayout

MonitorRuns ==
  \/ StartCycle \/ SelectPayouts \/ EndCycle
  \/ \E b \in Blocks : ConfirmBlock(b) \/ Send(b) \/ RecordPaid(b) \/ Defer(b)

Failure ==
  \/ StatementFails \/ PoolDies \/ CycleFails
  \/ \E b \in Blocks, paid \in BOOLEAN : CliFails(b, paid)

LedgerNext ==
  \/ \E login \in Accounts, status \in {200, 401} : WorkerAuth(login, status)
  \/ \E login \in authCache \cup {Unknown} : PoolRuns(login)
  \/ Recorder \/ MonitorRuns \/ Failure
  \/ ChainStep /\ UNCHANGED ledgerVars

LedgerSpec == LedgerInit /\ [][LedgerNext]_allVars

\* The monitor's loop goes on for ever.
FairLedgerSpec == LedgerSpec /\ WF_allVars(MonitorRuns)

-------------------------------------------------------------------------------
(* What must hold *)

\* The types of the variables.
LedgerTypeOK ==
  /\ SubmissionTypeOK
  /\ authCache \subseteq Accounts /\ finder \in [Blocks -> Accounts \cup {Unknown}]
  /\ row \in [Heights -> [block : Blocks \cup {NoBlock}, confirmed : BOOLEAN]]
  /\ payout \in [Blocks -> {"none", "pending", "paid"}]
  /\ recording \in [block : Blocks, next : Statements \ {"none"}] \cup {Idle}
  /\ monitor \in [step : MonitorSteps \cup Blocks, todo : SUBSET Blocks]
  /\ payments \in [Blocks -> Nat]

\* Only a block that a daemon has stored is ever credited (CheckBlockAccepted
\* before the share is emitted), whatever the daemons answered in between.
OnlyStoredCredited ==
  \A b \in Blocks : payout[b] # "none" \/ row[Height[b]].block = b => b \in Stored

\* "a 'paid' row always has a real testnet txid behind it" (payout_monitor.py:11).
PaidWasSent == \A b \in Blocks : payout[b] = "paid" => payments[b] > 0

\* A failure costs a miner the credit of at most one block, although recordBlock
\* is three statements that commit one by one and reads the account from a cache
\* that was filled when the miner logged in (portal_bridge.js:112-132).
Uncredited ==
  {b \in Blocks : /\ call[b].step = "accepted" /\ recording.block # b
                  /\ finder[b] # Unknown /\ payout[b] = "none"}

CreditedUnlessFailed == Cardinality(Uncredited) <= faults

\* A height is confirmed only when one of the pool's blocks at it has matured,
\* although the row can be replaced between the look-up of a block and the
\* update (payout_monitor.py:57-64).
ConfirmedHeightMature ==
  \A h \in Heights : row[h].confirmed => \E b \in mature : Height[b] = h

\* A payout that is marked paid is not paid again, by any later cycle.
PaidIsFinal ==
  [][\A b \in Blocks : payout[b] = "paid" => payout'[b] = "paid"
                                             /\ payments'[b] = payments[b]]_allVars

\* It takes a failure for every payment beyond the first of a payout: the cycles,
\* the rows they read and the pool's process by themselves never pay twice.
RepaidOnlyByFailure == \A b \in Blocks : payments[b] <= faults + 1

\* No payout stays owed for ever: its block has matured, the wallet can pay and
\* it is pending ("it retries next cycle", payout_monitor.py:13).
Owed == {b \in mature \cap Payable : payout[b] = "pending" /\ Funded}

PayoutsPaid == \A b \in Payable : []<>(b \notin Owed)

\* Whatever was recorded of a block belongs to a block that was accepted, and a
\* block is recorded once.
RecordedIsAccepted ==
  \A b \in Blocks :
    /\ payout[b] # "none" \/ row[Height[b]].block = b \/ recording.block = b
         => call[b].step = "accepted"
    /\ recording.block = b => payout[b] = "none"

\* The rows a cycle has read and not done are still pending, and the payment it
\* is about to record was made.
CycleIsCurrent ==
  /\ monitor.step \in {"paying"} \cup Blocks => \A b \in monitor.todo : payout[b] = "pending"
  /\ \A b \in Blocks : monitor.step = b => b \in monitor.todo /\ payments[b] > 0

\* A payment is recorded, about to be, or paid for by a failure.
PaymentsAccounted ==
  \A b \in Blocks :
    payments[b] <= faults + (IF payout[b] = "paid" \/ monitor.step = b THEN 1 ELSE 0)

\* The inductive invariant behind OnlyStoredCredited, PaidWasSent, PaidIsFinal
\* and RepaidOnlyByFailure.
LedgerInv ==
  /\ LedgerTypeOK /\ AcceptedStored
  /\ RecordedIsAccepted /\ CycleIsCurrent /\ PaymentsAccounted /\ PaidWasSent

\* A share on its way, and the block being recorded, name a login in the cache:
\* the process that forgets the cache forgets them, too.
NamedIsCached ==
  \A b \in Blocks : call[b].step \in {"submitting", "checking"} \/ recording.block = b
                     => finder[b] \in authCache \cup {Unknown}

\* A send that raises "simply fails and the row stays 'pending'"
\* (payout_monitor.py:12): no payout is sent twice.
SentOnce == \A b \in Blocks : payments[b] <= 1
===============================================================================
