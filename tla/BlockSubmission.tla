---------------------------- MODULE BlockSubmission ----------------------------
(***************************************************************************)
(* A share that solves the block on its way through pool.js: SubmitBlock   *)
(* sends it to every daemon, CheckBlockAccepted asks every daemon for it,  *)
(* and only then is the share emitted.  daemon.cmd calls back when the     *)
(* last instance has answered.  The daemons and the chain are external.    *)
(***************************************************************************)
EXTENDS Naturals, FiniteSets

CONSTANTS
  Blocks,      \* blocks the pool's miners may solve
  Height,      \* Height[b]
  Daemons,     \* daemon instances
  MaxFaults    \* bound: crashes, busy databases, calls that fail

ASSUME BlockAssumption ==
  /\ Height \in [Blocks -> Nat] /\ IsFiniteSet(Blocks)
  /\ IsFiniteSet(Daemons) /\ Daemons # {} /\ MaxFaults \in Nat

VARIABLES
  call,      \* call[b]: where the share that solved b is
  has,       \* has[d]: the blocks daemon d has stored
  main,      \* the pool's blocks that are in the best chain
  mature,    \* those of them that have COINBASE_MATURITY confirmations
  faults     \* failures so far

submissionVars == <<call, has, main, mature, faults>>

Answers  == {"waiting", "fine", "failed"}
Steps    == {"none", "submitting", "checking", "accepted", "refused", "lost"}
Asking(step) == [step |-> step, answers |-> [d \in Daemons |-> "waiting"]]
Settled(step) == Asking(step)

Stored == {b \in Blocks : \E d \in Daemons : b \in has[d]}
Fault  == faults < MaxFaults /\ faults' = faults + 1

\* processShare emits a share with a blockHex.
FindBlock(b) ==
  /\ call[b].step = "none"
  /\ call' = [call EXCEPT ![b] = Asking("submitting")]
  /\ UNCHANGED <<has, main, mature, faults>>

WithAnswer(b, d, answer) == [call[b].answers EXCEPT ![d] = answer]

\* The call with these answers: what every instance said is looked at once the
\* last one has answered.
Answered(b, answers, outcome) ==
  call' = [call EXCEPT ![b] =
             IF \E d \in Daemons : answers[d] = "waiting"
             THEN [@ EXCEPT !.answers = answers] ELSE outcome]

\* SubmitBlock: one error, or one 'rejected', and the callback is not called.
Submitted(answers) ==
  IF \E d \in Daemons : answers[d] = "failed" THEN Settled("lost") ELSE Asking("checking")

\* A daemon answers submitblock.  It may have stored the block although the
\* answer got lost, and any text but 'rejected' is taken for success.
SubmitAnswer(b, d, stored, answer) ==
  /\ call[b].step = "submitting" /\ call[b].answers[d] = "waiting"
  /\ has' = [has EXCEPT ![d] = IF stored THEN @ \cup {b} ELSE @]
  /\ LET answers == WithAnswer(b, d, answer) IN Answered(b, answers, Submitted(answers))
  /\ UNCHANGED <<main, mature, faults>>

\* A slip: the check is made and its result not used.
AnyChecked(answers) == Settled("accepted")

\* CheckBlockAccepted: one instance that knows the block is enough.
Checked(answers) ==
  IF \E d \in Daemons : answers[d] = "fine" THEN Settled("accepted") ELSE Settled("refused")

\* A daemon answers getblock; it knows stale blocks as well.
CheckAnswer(b, d, error) ==
  /\ call[b].step = "checking" /\ call[b].answers[d] = "waiting"
  /\ LET answers == WithAnswer(b, d, IF b \in has[d] /\ ~error THEN "fine" ELSE "failed")
     IN  Answered(b, answers, Checked(answers))
  /\ UNCHANGED <<has, main, mature, faults>>

\* The pool's process dies: what it was waiting for is forgotten.
PoolCrash ==
  /\ Fault
  /\ call' = [b \in Blocks |-> IF call[b].step \in {"submitting", "checking"}
                               THEN Settled("lost") ELSE call[b]]
  /\ UNCHANGED <<has, main, mature>>

-------------------------------------------------------------------------------
(* The daemons and the chain *)

Relay(b, d) ==
  /\ b \in Stored \ has[d]
  /\ has' = [has EXCEPT ![d] = @ \cup {b}]
  /\ UNCHANGED <<call, main, mature, faults>>

\* A stored block becomes part of the best chain, in place of any other of its
\* height, or it leaves it for somebody else's.
Activate(b) ==
  /\ b \in Stored \ main
  /\ \A m \in mature : Height[b] > Height[m]
  /\ main' = {c \in main : Height[c] # Height[b]} \cup {b}
  /\ UNCHANGED <<call, has, mature, faults>>

Displace(b) ==
  /\ b \in main \ mature
  /\ main' = main \ {b}
  /\ UNCHANGED <<call, has, mature, faults>>

Mature(b) ==
  /\ b \in main \ mature
  /\ \A c \in main : Height[c] < Height[b] => c \in mature
  /\ mature' = mature \cup {b}
  /\ UNCHANGED <<call, has, main, faults>>

SubmissionInit ==
  /\ call = [b \in Blocks |-> Settled("none")]
  /\ has = [d \in Daemons |-> {}]
  /\ main = {} /\ mature = {} /\ faults = 0

PoolStep ==
  \E b \in Blocks :
    \/ FindBlock(b)
    \/ \E d \in Daemons, stored \in BOOLEAN, answer \in {"fine", "failed"} :
         SubmitAnswer(b, d, stored, answer)
    \/ \E d \in Daemons, error \in BOOLEAN : CheckAnswer(b, d, error)

ChainStep ==
  \E b \in Blocks :
    \/ \E d \in Daemons : Relay(b, d)
    \/ Activate(b) \/ Displace(b) \/ Mature(b)

SubmissionTypeOK ==
  /\ call \in [Blocks -> [step : Steps, answers : [Daemons -> Answers]]]
  /\ has \in [Daemons -> SUBSET Blocks]
  /\ main \subseteq Stored /\ mature \subseteq main
  /\ faults \in 0 .. MaxFaults

\* What a daemon confirmed, and so what was accepted, is stored by one.
AcceptedStored ==
  \A b \in Blocks :
    /\ call[b].step = "accepted" => b \in Stored
    /\ call[b].step = "checking" /\ (\E d \in Daemons : call[b].answers[d] = "fine")
         => b \in Stored

\* A block is given up for a failed submission only when no daemon has stored
\* it: more than one daemon is run "for redundancy" (engine/README.md:244-246).
LostOnlyIfRefused ==
  \A b \in Blocks : call[b].step = "lost" => b \notin Stored
===============================================================================
