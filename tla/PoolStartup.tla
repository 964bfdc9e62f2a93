------------------------------ MODULE PoolStartup ------------------------------
(***************************************************************************)
(* How the pool comes up (engine/lib/pool.js, start): the daemons are      *)
(* looked up, the first one is asked for the coin's data, templates are    *)
(* asked for until no daemon is synchronizing, and the first job starts    *)
(* the poll timer, the stratum server and the peer, which runs from then   *)
(* on (PeerConnection).  cmd calls back when the last daemon has answered, *)
(* or, for the first job, with every answer.  What the feed does after the *)
(* first job is in TemplateFeed.                                           *)
(***************************************************************************)
EXTENDS PeerConnection, FiniteSets

CONSTANTS
  Daemons,     \* configured daemon instances
  First,       \* instances[0], the one batchCmd asks
  MaxReports   \* bound: progress reports at a time

ASSUME StartupAssumption == First \in Daemons /\ MaxReports \in Nat \ {0}

VARIABLES
  stage,     \* the step of start the pool is at
  answers,   \* what each daemon answered to its request
  synced,    \* daemons that have downloaded the chain
  reports,   \* generateProgress: reports whose requests are in flight
  starts     \* how often GetFirstJob called back

startupVars == <<stage, answers, synced, reports, starts>>
vars == <<peerVars, faults, startupVars>>

Stages  == {"online", "coinData", "sync", "pause", "firstJob", "serving", "stopped"}
Answers == {"waiting", "fine", "syncing", "error", "lost"}
Asked   == [d \in Daemons |-> "waiting"]

\* Daemon d answers the request of stage s.  Status 401 and text that is no
\* JSON are logged and dropped: the answer is lost, and cmd waits for ever.
Answer(s, d, a) ==
  /\ Waiting /\ stage = s /\ answers[d] = "waiting"
  /\ IF a \in {"error", "lost"} THEN Fault ELSE UNCHANGED faults

\* A slip: the next request finds the answers of this one.
CollectedForGood(d, a, next) ==
  LET all == [answers EXCEPT ![d] = a]
  IN  IF \E e \in Daemons : all[e] \in {"waiting", "lost"}
      THEN answers' = all /\ UNCHANGED stage
      ELSE answers' = all /\ stage' = next

\* cmd without streamResults: after the last answer the next stage asks anew.
Collected(d, a, next) ==
  LET all == [answers EXCEPT ![d] = a]
  IN  IF \E e \in Daemons : all[e] \in {"waiting", "lost"}
      THEN answers' = all /\ UNCHANGED stage
      ELSE answers' = Asked /\ stage' = next

-------------------------------------------------------------------------------
\* isOnline: it reads the error of the array, so the daemons are always online.
AnswerOnline(d, a) ==
  /\ a \in {"fine", "error", "lost"}
  /\ Answer("online", d, a)
  /\ Collected(d, a, "coinData")
  /\ UNCHANGED <<peerVars, synced, reports, starts>>

\* DetectCoinData: any error, a bad address or an unknown way to submit blocks,
\* and the pool does not start.
AnswerCoinData(a) ==
  /\ a \in {"fine", "error", "lost"}
  /\ Answer("coinData", First, a)
  /\ stage' = CASE a = "fine" -> "sync" [] a = "error" -> "stopped" [] OTHER -> stage
  /\ answers' = IF a = "lost" THEN [answers EXCEPT ![First] = a] ELSE Asked
  /\ UNCHANGED <<peerVars, synced, reports, starts>>

\* getblocktemplate answers a code -10 until the chain is downloaded.
TemplateAnswers(d) ==
  {"error", "lost"} \cup (IF d \in synced THEN {"fine"} ELSE {"syncing"})

\* A slip: one daemon that is synchronized is enough.
SyncedBySome(all) == \E d \in Daemons : all[d] # "syncing"

\* Any other error counts as synchronized.
Synced(all) == \A d \in Daemons : all[d] # "syncing"

\* checkSynced: the retry timer is set and the progress reported, or the first
\* job asked for.
AnswerSync(d, a) ==
  LET synchronized == Synced([answers EXCEPT ![d] = a])
  IN  /\ a \in TemplateAnswers(d)
      /\ Answer("sync", d, a)
      /\ Collected(d, a, IF synchronized THEN "firstJob" ELSE "pause")
      /\ reports' = IF stage' = "pause" THEN reports + 1 ELSE reports
      /\ UNCHANGED <<peerVars, synced, starts>>

\* setTimeout(checkSynced, 5000)
Retry ==
  /\ Waiting /\ stage = "pause" /\ reports < MaxReports
  /\ stage' = "sync"
  /\ UNCHANGED <<peerVars, faults, answers, synced, reports, starts>>

\* Both requests of a report were answered, or one never is.
ReportEnds(lost) ==
  /\ Waiting /\ reports > 0
  /\ IF lost THEN Fault ELSE UNCHANGED faults
  /\ reports' = reports - 1
  /\ UNCHANGED <<peerVars, stage, answers, synced, starts>>

\* An error, or a node that has no peers: the result is read without a look at
\* the error, which throws.
ReportThrows ==
  /\ Waiting /\ reports > 0
  /\ Fault
  /\ alive' = FALSE
  /\ UNCHANGED <<link, verack, sent, wire, parser, handled, written, startupVars>>

\* A slip: every template of the first request is taken for the first job.
EveryJobStarts == TRUE

\* callback = function(){}: only the first template is.
FirstJobLive == starts = 0

\* GetFirstJob, daemon by daemon; SetupBlockPolling, SetupPeer and
\* StartStratumServer follow at once.
AnswerFirstJob(d, a) ==
  /\ a \in TemplateAnswers(d)
  /\ \E s \in {"firstJob", "serving"} : Answer(s, d, a)
  /\ answers' = [answers EXCEPT ![d] = a]
  /\ IF a = "fine" /\ FirstJobLive
     THEN starts' = starts + 1 /\ stage' = "serving" /\ link' = "connecting"
     ELSE UNCHANGED <<starts, stage, link>>
  /\ UNCHANGED <<alive, verack, sent, wire, parser, handled, written, synced, reports>>

\* A daemon has downloaded the chain.
Catches(d) ==
  /\ d \notin synced
  /\ synced' = synced \cup {d}
  /\ UNCHANGED <<peerVars, faults, stage, answers, reports, starts>>

-------------------------------------------------------------------------------
StartupInit ==
  /\ stage = "online" /\ answers = Asked /\ synced \in SUBSET Daemons
  /\ reports = 0 /\ starts = 0 /\ faults = 0
  /\ alive = TRUE /\ link = "none" /\ verack = FALSE
  /\ sent = <<>> /\ wire = <<>> /\ handled = <<>> /\ written = <<>>
  /\ buff = <<>> /\ head = <<>> /\ need = 0

StartupStep ==
  \/ \E d \in Daemons, a \in Answers :
       AnswerOnline(d, a) \/ AnswerSync(d, a) \/ AnswerFirstJob(d, a)
  \/ \E a \in Answers : AnswerCoinData(a)
  \/ Retry \/ \E lost \in BOOLEAN : ReportEnds(lost)

PoolNext ==
  \/ StartupStep \/ ReportThrows
  \/ \E d \in Daemons : Catches(d)
  \/ PeerNext /\ UNCHANGED startupVars

StartupSpec == StartupInit /\ [][PoolNext]_vars

\* Daemons answer and catch up, the timer fires; attempts to connect end, the
\* node greets, and what it sends arrives.
FairStartupSpec ==
  /\ StartupSpec
  /\ WF_vars(StartupStep)
  /\ \A d \in Daemons : WF_vars(Catches(d))
  /\ WF_vars(link = "connecting" /\ (Opened \/ Refused \/ Closed) /\ UNCHANGED startupVars)
  /\ WF_vars(Parse /\ UNCHANGED startupVars)
  /\ WF_vars((\E c \in {"version", "verack"} : NodeSends(c, TRUE)) /\ UNCHANGED startupVars)
  /\ WF_vars((\E n \in 1 .. Len(wire) : Data(n)) /\ UNCHANGED startupVars)

-------------------------------------------------------------------------------
\* The types of the variables of startup and peer.
StartupTypeOK ==
  /\ PeerTypeOK
  /\ stage \in Stages /\ answers \in [Daemons -> Answers] /\ synced \subseteq Daemons
  /\ reports \in 0 .. MaxReports /\ starts \in Nat

(***************************************************************************)
(* However many daemons answer the first request, the poll timer, the peer *)
(* and the stratum server (whose ports can be bound once) start once.      *)
(***************************************************************************)
StartsOnce == starts <= 1

\* The pool asks for its first job only when no daemon is synchronizing: one
\* that is must have failed to say so.
WaitsForSync == stage \in {"firstJob", "serving"} => synced = Daemons \/ faults > 0

(***************************************************************************)
(* "server will be started once synced" (pool.js:143): it is, however long *)
(* the daemons take, unless one of them fails on the way; then the pool    *)
(* may wait for ever, not start, or die in generateProgress.               *)
(***************************************************************************)
StartsUnlessFault == <>(stage = "serving" \/ faults > 0)
===============================================================================
