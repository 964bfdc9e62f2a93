----------------------------- MODULE TemplateFeed -----------------------------
(***************************************************************************)
(* How block templates reach the miners (engine/lib/pool.js between        *)
(* GetFirstJob and the stratum server, daemon.js cmd with streamResults,   *)
(* stratum.js broadcastMiningJobs).                                        *)
(*                                                                         *)
(* GetBlockTemplate asks every daemon and handles each answer as it        *)
(* arrives.  Daemons disagree about the best block, answers are delayed,   *)
(* overtake one another, fail or never come, and requests of the poll      *)
(* timer, of block notifications and of the rebroadcast timer overlap.     *)
(***************************************************************************)
EXTENDS JobManager

CONSTANTS
  Daemons,      \* configured daemon instances
  Calls,        \* bound: slots for getblocktemplate requests in flight
  Miners,       \* connections to the stratum server
  MaxFailures,  \* bound: requests a daemon fails to answer
  Sent, Done    \* states of a daemon's part of a request

ASSUME FeedAssumption ==
  /\ Sent # Done /\ Sent \notin Blocks /\ Done \notin Blocks
  /\ MaxFailures \in Nat

VARIABLES
  phase,        \* "first job", "listening" or "started"
  tip,          \* tip[d]: the block daemon d's templates build on
  calls,        \* the requests in flight
  timer,        \* the stratum server's rebroadcast timer: "armed" or "off"
  connected,    \* clients in stratumClients
  clean,        \* jobParams[8] of the current job: drop older work
  work,         \* work[m][i]: the job miner m works on under id i
  failures      \* requests that failed so far

feedVars == <<phase, tip, calls, timer, connected, clean, work, failures>>
allVars  == <<jobVars, feedVars>>

Kinds    == {"first job", "plain", "rebroadcast"}
Call     == [kind : Kinds \cup {"idle"}, live : BOOLEAN,
             reply : [Daemons -> Blocks \cup {Sent, Done}]]
IdleCall == [kind |-> "idle", live |-> FALSE, reply |-> [d \in Daemons |-> Done]]
NoWork   == [i \in JobIds |-> NoJob]

-------------------------------------------------------------------------------
(* Requests *)

\* GetBlockTemplate: cmd sends the request to every daemon; callback is live
\* until the first template was handed to it.
Request(c, kind) ==
  /\ calls[c].kind = "idle"
  /\ calls' = [calls EXCEPT ![c] =
        [kind |-> kind, live |-> TRUE, reply |-> [d \in Daemons |-> Sent]]]

\* The request as it is once d's part is over.
Finished(call, d, live) ==
  LET reply == [call.reply EXCEPT ![d] = Done]
  IN  IF \A e \in Daemons : reply[e] = Done
      THEN IdleCall ELSE [kind |-> call.kind, live |-> live, reply |-> reply]

\* setInterval(GetBlockTemplate, blockRefreshInterval)
PollTick(c) ==
  /\ phase # "first job"
  /\ Request(c, "plain")
  /\ UNCHANGED <<jobVars, phase, tip, timer, connected, clean, work, failures>>

\* processBlockNotify.  The announced hash is in wire order (peer.js), so it
\* never equals a previousblockhash and the request is always made.
BlockNotify(c) ==
  /\ phase # "first job"
  /\ Request(c, "plain")
  /\ UNCHANGED <<jobVars, phase, tip, timer, connected, clean, work, failures>>

\* After a block of the pool was submitted and looked up.
BlockChecked(c) ==
  /\ phase # "first job"
  /\ Request(c, "plain")
  /\ UNCHANGED <<jobVars, phase, tip, timer, connected, clean, work, failures>>

\* The timer of broadcastMiningJobs fires: broadcastTimeout.
RebroadcastTimeout(c) ==
  /\ timer = "armed"
  /\ timer' = "off"
  /\ Request(c, "rebroadcast")
  /\ UNCHANGED <<jobVars, phase, tip, connected, clean, work, failures>>

-------------------------------------------------------------------------------
(* Daemons *)

\* Daemon d changes to another best block, one with more work.
NewTip(d) ==
  /\ \E b \in Blocks : Height[b] > Height[tip[d]] /\ tip' = [tip EXCEPT ![d] = b]
  /\ UNCHANGED <<jobVars, phase, calls, timer, connected, clean, work, failures>>

\* Daemon d builds the template it will answer with.
Serve(c, d) ==
  /\ calls[c].kind # "idle" /\ calls[c].reply[d] = Sent
  /\ calls' = [calls EXCEPT ![c].reply[d] = tip[d]]
  /\ UNCHANGED <<jobVars, phase, tip, timer, connected, clean, work, failures>>

-------------------------------------------------------------------------------
(* Answers *)

\* broadcastMiningJobs: every client gets the job, and the timer is set anew.
\* A miner told to keep older work adds the job to it.
Broadcast(job, isClean) ==
  /\ work' = [m \in Miners |->
                IF m \notin connected THEN work[m]
                ELSE IF isClean THEN [NoWork EXCEPT ![job.jobId] = job]
                ELSE [work[m] EXCEPT ![job.jobId] = job]]
  /\ clean' = isClean
  /\ timer' = "armed"

Answered(c, d) == calls[c].kind # "idle" /\ calls[c].reply[d] \in Blocks

\* The answer starts a new block; newBlock is broadcast if there is a server.
DeliverNewBlock(c, d) ==
  LET rpc == RpcData(calls[c].reply[d])
  IN  /\ Answered(c, d)
      /\ NewBlock(rpc)
      /\ IF phase = "first job"
         THEN clean' = TRUE /\ UNCHANGED <<work, timer>>
         ELSE Broadcast(NewJob(rpc), TRUE)
      /\ phase' = IF calls[c].kind = "first job" /\ calls[c].live
                  THEN "listening" ELSE phase
      /\ calls' = [calls EXCEPT ![c] = Finished(@, d, FALSE)]
      /\ UNCHANGED <<tip, connected, failures>>

\* Not a new block, and the rebroadcast timer asked: updateCurrentJob.
DeliverRefresh(c, d) ==
  LET rpc == RpcData(calls[c].reply[d])
  IN  /\ Answered(c, d)
      /\ calls[c].kind = "rebroadcast" /\ calls[c].live
      /\ ~IsNewBlock(rpc)
      /\ UpdateCurrentJob(rpc)
      /\ Broadcast(NewJob(rpc), FALSE)
      /\ calls' = [calls EXCEPT ![c] = Finished(@, d, FALSE)]
      /\ UNCHANGED <<phase, tip, connected, failures>>

\* Not a new block, and nobody to act on it.
DeliverKnown(c, d) ==
  /\ Answered(c, d)
  /\ calls[c].kind = "rebroadcast" => ~calls[c].live
  /\ SameBlock(RpcData(calls[c].reply[d]))
  /\ calls' = [calls EXCEPT ![c] = Finished(@, d, FALSE)]
  /\ UNCHANGED <<phase, tip, timer, connected, clean, work, failures>>

\* A slip: an error uses up the callback.
ErrorEndsCall(c, d) ==
  /\ calls[c].kind # "idle" /\ calls[c].reply[d] = Sent
  /\ failures < MaxFailures
  /\ failures' = failures + 1
  /\ calls' = [calls EXCEPT ![c] = Finished(@, d, FALSE)]
  /\ UNCHANGED <<jobVars, phase, tip, timer, connected, clean, work>>

\* The daemon is offline or answers with an error: the callback logs it and
\* stays live for the other daemons.  An answer that is not authorized or
\* cannot be parsed is dropped by performHttpRequest, to the same effect.
DeliverError(c, d) ==
  /\ calls[c].kind # "idle" /\ calls[c].reply[d] = Sent
  /\ failures < MaxFailures
  /\ failures' = failures + 1
  /\ calls' = [calls EXCEPT ![c] = Finished(@, d, @.live)]
  /\ UNCHANGED <<jobVars, phase, tip, timer, connected, clean, work>>

-------------------------------------------------------------------------------
(* The stratum server *)

\* The last port listens: 'started' broadcasts the current job.
Listening ==
  /\ phase = "listening"
  /\ phase' = "started"
  /\ Broadcast(currentJob, clean)
  /\ UNCHANGED <<jobVars, tip, calls, connected, failures>>

Connect(m) ==
  /\ phase # "first job" /\ m \notin connected
  /\ connected' = connected \cup {m}
  /\ UNCHANGED <<jobVars, phase, tip, calls, timer, clean, work, failures>>

\* The subscription handler sends the current job with its cached flag.
Subscribe(m) ==
  /\ m \in connected
  /\ work' = [work EXCEPT ![m] =
                [(IF clean THEN NoWork ELSE @) EXCEPT ![currentJob.jobId] = currentJob]]
  /\ UNCHANGED <<jobVars, phase, tip, calls, timer, connected, clean, failures>>

\* The socket closes: the miner left, or was inactive for connectionTimeout
\* when it should have been sent a job.
Disconnect(m) ==
  /\ m \in connected
  /\ connected' = connected \ {m}
  /\ work' = [work EXCEPT ![m] = NoWork]
  /\ UNCHANGED <<jobVars, phase, tip, calls, timer, clean, failures>>

-------------------------------------------------------------------------------

\* GetFirstJob has just sent its request.
FeedInit ==
  /\ JobInit
  /\ phase     = "first job"
  /\ tip       \in [Daemons -> Blocks]
  /\ calls     \in [Calls -> {IdleCall, [kind |-> "first job", live |-> TRUE,
                                        reply |-> [d \in Daemons |-> Sent]]}]
  /\ \E c \in Calls : \A o \in Calls : calls[o] = IdleCall <=> o # c
  /\ timer     = "off"
  /\ connected = {}
  /\ clean     = TRUE
  /\ work      = [m \in Miners |-> NoWork]
  /\ failures  = 0

Deliver(c, d) ==
  \/ DeliverNewBlock(c, d)
  \/ DeliverRefresh(c, d)
  \/ DeliverKnown(c, d)
  \/ DeliverError(c, d)

FeedNext ==
  \/ \E c \in Calls : PollTick(c)
  \/ \E c \in Calls : BlockNotify(c)
  \/ \E c \in Calls : BlockChecked(c)
  \/ \E c \in Calls : RebroadcastTimeout(c)
  \/ \E d \in Daemons : NewTip(d)
  \/ \E c \in Calls, d \in Daemons : Serve(c, d)
  \/ \E c \in Calls, d \in Daemons : Deliver(c, d)
  \/ Listening
  \/ \E m \in Miners : Connect(m)
  \/ \E m \in Miners : Subscribe(m)
  \/ \E m \in Miners : Disconnect(m)

FeedSpec == FeedInit /\ [][FeedNext]_allVars

(***************************************************************************)
(* Daemons answer what they are asked, and the poll timer keeps ticking:   *)
(* setInterval does not wait for a slot of Calls, hence strong fairness.   *)
(* Nothing is assumed of the rebroadcast timer, of notifications and of    *)
(* the miners.                                                             *)
(***************************************************************************)
FeedFairness ==
  /\ \A c \in Calls, d \in Daemons : WF_allVars(Serve(c, d))
  /\ \A c \in Calls, d \in Daemons : WF_allVars(Deliver(c, d))
  /\ SF_allVars(\E c \in Calls : PollTick(c))

FairFeedSpec == FeedSpec /\ FeedFairness

-------------------------------------------------------------------------------

\* The feed's state has the expected shapes.
FeedTypeOK ==
  /\ JobTypeOK
  /\ phase     \in {"first job", "listening", "started"}
  /\ tip       \in [Daemons -> Blocks]
  /\ calls     \in [Calls -> Call]
  /\ timer     \in {"armed", "off"}
  /\ connected \subseteq Miners
  /\ clean     \in BOOLEAN
  /\ work      \in [Miners -> [JobIds -> Job \cup {NoJob}]]
  /\ failures  \in Nat

(***************************************************************************)
(* Every job a miner was told to keep working on is registered: its shares *)
(* are judged against the very template that was sent, never refused with  *)
(* "job not found"; and the newest of them is the current job.  Broadcast, *)
(* the cached clean flag of a late subscription, the reset of validJobs    *)
(* and the reuse of ids have to agree for this.                            *)
(***************************************************************************)
WorkHonoured ==
  \A m \in Miners :
    /\ \A i \in JobIds : work[m][i] # NoJob => validJobs[i] = work[m][i]
    /\ work[m] # NoWork => work[m][currentJob.jobId] = currentJob

\* Before the first job there is no server, no client and no timer, and only
\* GetFirstJob's request is in flight; a closed connection has no work.
StartedInOrder ==
  /\ phase = "first job" <=> currentJob = NoJob
  /\ phase = "first job" =>
       /\ connected = {} /\ timer = "off"
       /\ \A c \in Calls :
            calls[c].kind # "idle" => calls[c].kind = "first job" /\ calls[c].live
  /\ \A m \in Miners \ connected : work[m] = NoWork

\* The inductive invariant behind WorkHonoured.
FeedInv == FeedTypeOK /\ JobInv /\ StartedInOrder /\ WorkHonoured

GoesBack == currentJob # NoJob /\ currentJob'.height < currentJob.height

\* A rebroadcast request had its one template delivered.
RefreshAnswered ==
  \E c \in Calls : calls[c].kind = "rebroadcast" /\ calls[c].live /\ ~calls'[c].live

(***************************************************************************)
(* The pool goes back to a lower height only when the rebroadcast timer    *)
(* asked for a template; polls and notifications, however late their       *)
(* answers, never undo a block (processTemplate's height test).            *)
(***************************************************************************)
OnlyRefreshGoesBack == [][GoesBack => RefreshAnswered]_allVars

(***************************************************************************)
(* Once the daemons agree for good on a block, the pool mines on it for    *)
(* good: polling alone repairs whatever overlapping and late answers, lost *)
(* requests or a refresh with an old template did before.                  *)
(***************************************************************************)
CatchesUp ==
  \A b \in Blocks :
    <>[](\A d \in Daemons : tip[d] = b) => <>[](currentJob # NoJob /\ currentJob.prev = b)

(***************************************************************************)
(* Whenever the rebroadcast timer has fired, it is set again: "every time  *)
(* we broadcast jobs, set a timeout to rebroadcast" (stratum.js:388-389).  *)
(***************************************************************************)
RebroadcastGoesOn == phase = "started" /\ timer = "off" ~> timer = "armed"
===============================================================================
