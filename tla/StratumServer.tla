----------------------------- MODULE StratumServer -----------------------------
(***************************************************************************)
(* The stratum server and its clients (engine/lib/stratum.js), with the    *)
(* handlers pool.js registers on a client: subscription, submit and the    *)
(* retarget of varDiff.                                                    *)
(*                                                                         *)
(* Messages arrive in chunks: one 'data' event handles every line it       *)
(* holds, and no timer, broadcast or other socket runs before its last     *)
(* line, even if an earlier line destroyed the socket.  Authorization is   *)
(* answered later, by the portal.  Worker names, passwords and texts are   *)
(* left out: the server does not compare them.                             *)
(***************************************************************************)
EXTENDS ShareRules, Integers

CONSTANTS
  Conns,          \* connections, reused once closed
  Addrs,          \* remote addresses
  PortDiff,       \* options.ports[port].diff
  VarDiffs,       \* difficulties a retarget of the port may ask for
  BanningEnabled, \* options.banning.enabled
  CheckThreshold, \* options.banning.checkThreshold
  InvalidPercent, \* options.banning.invalidPercent
  BanTime,        \* options.banning.time
  Second,         \* units of Date.now() in a second: 1000 in the code
  NoncesFrom,     \* instanceId << 27
  Nobody,         \* no socket is being read
  NoBan,          \* an address that is not in bannedIPs
  MaxSubmits,     \* bound: shares counted for one connection
  MaxSubscribes,  \* bound: subscriptions
  MaxAuths        \* bound: authorizations of a connection in flight

ASSUME StratumAssumption ==
  /\ PortDiff \in Nat \ {0} /\ VarDiffs \subseteq Nat \ {0}
  /\ BanningEnabled \in BOOLEAN
  /\ {CheckThreshold, InvalidPercent, BanTime} \subseteq Nat /\ Second \in Nat \ {0}
  /\ NoncesFrom \in Int
  /\ Nobody \notin Conns /\ NoBan \notin Nat
  /\ {MaxSubmits, MaxSubscribes, MaxAuths} \subseteq Nat

VARIABLES
  client,       \* client[c]: the StratumClient of connection c
  reading,      \* the connection whose chunk is being handled, or Nobody
  banned,       \* bannedIPs: how long ago the address was banned, or NoBan
  nonces        \* ExtraNonceCounter.counter

serverVars == <<client, reading, banned, nonces>>

Difficulties == {PortDiff} \cup VarDiffs
Statuses     == {"none", "open", "destroyed"}
NoNonce      == -1
Expired      == BanTime * Second + 1   \* an older ban is not told from this one

(***************************************************************************)
(* status: "none" - not in stratumClients; "destroyed" - the socket was    *)
(* destroyed and its 'close' event has not run yet.  told and changes are  *)
(* the miner's side: the difficulties at which it was sent jobs that are   *)
(* still valid, and how often (at most 2 counts) its difficulty changed    *)
(* since the last new block.                                               *)
(***************************************************************************)
Client == [status : Statuses, addr : Addrs, authorized : BOOLEAN, auths : 0 .. MaxAuths,
           nonce : Nat \cup {NoNonce}, idle : BOOLEAN, valid : Nat, invalid : Nat,
           difficulty : Difficulties \cup {0}, previous : Difficulties \cup {0},
           pending : VarDiffs \cup {0}, told : SUBSET Difficulties, changes : 0 .. 2]

NewClient(addr, status) ==
  [status |-> status, addr |-> addr, authorized |-> FALSE, auths |-> 0, nonce |-> NoNonce,
   idle |-> FALSE, valid |-> 0, invalid |-> 0, difficulty |-> 0, previous |-> 0,
   pending |-> 0, told |-> {}, changes |-> 0]

Members    == {c \in Conns : client[c].status # "none"}
Subscribed(k) == k.nonce # NoNonce

-------------------------------------------------------------------------------
(* What the handlers do to a client k *)

\* A slip: the difficulty before is forgotten.
SendDifficultyOnly(k, d) ==
  IF d = k.difficulty THEN k
  ELSE [k EXCEPT !.difficulty = d,
                 !.changes = IF k.difficulty = 0 \/ @ = 2 THEN @ ELSE @ + 1]

\* sendDifficulty
SendDifficulty(k, d) ==
  IF d = k.difficulty THEN k
  ELSE [k EXCEPT !.previous = k.difficulty, !.difficulty = d,
                 !.changes = IF k.difficulty = 0 \/ @ = 2 THEN @ ELSE @ + 1]

\* The job goes out at the client's difficulty; a new block makes all older
\* jobs invalid.
Told(k, newBlock) ==
  [k EXCEPT !.told = (IF newBlock THEN {} ELSE @)
                     \cup (IF Subscribed(k) THEN {k.difficulty} ELSE {}),
            !.changes = IF newBlock THEN 0 ELSE @]

\* A slip: inactivity is not looked at.
SendJobAnyway(k, newBlock) ==
  Told(IF k.pending = 0 THEN k ELSE [SendDifficulty(k, k.pending) EXCEPT !.pending = 0],
       newBlock)

\* sendMiningJob: an inactive client is dropped; otherwise a difficulty that
\* waits is sent first.
SendMiningJob(k, newBlock) ==
  IF k.idle THEN [k EXCEPT !.status = "destroyed"]
  ELSE Told(IF k.pending = 0 THEN k
            ELSE [SendDifficulty(k, k.pending) EXCEPT !.pending = 0],
            newBlock)

\* considerBan counts the share; Bannable: the connection has to go.
Counted(k, shareValid) ==
  IF ~BanningEnabled THEN k
  ELSE IF shareValid THEN [k EXCEPT !.valid = @ + 1] ELSE [k EXCEPT !.invalid = @ + 1]

Bannable(k) ==
  /\ BanningEnabled
  /\ k.valid + k.invalid >= CheckThreshold
  /\ 100 * k.invalid >= InvalidPercent * (k.valid + k.invalid)

\* considerBan and addBannedIP.
ConsiderBan(c, k, shareValid) ==
  LET counted == Counted(k, shareValid)
  IN  IF Bannable(counted)
      THEN /\ client' = [client EXCEPT ![c] = [counted EXCEPT !.status = "destroyed"]]
           /\ banned' = [banned EXCEPT ![k.addr] = 0]
      ELSE /\ client' = [client EXCEPT ![c] = counted]
           /\ UNCHANGED banned

-------------------------------------------------------------------------------
(* Connections *)

\* checkBan: the address is still to be refused.
StillBanned(addr) ==
  /\ BanningEnabled
  /\ banned[addr] # NoBan
  /\ BanTime * Second - banned[addr] > 0

\* A slip: a banned address is noticed but not refused.
ConnectAnyway(c, addr) ==
  /\ reading = Nobody
  /\ client[c].status = "none"
  /\ client' = [client EXCEPT ![c] = NewClient(addr, "open")]
  /\ banned' = [banned EXCEPT ![addr] = IF StillBanned(addr) THEN @ ELSE NoBan]
  /\ UNCHANGED <<reading, nonces>>

\* handleNewClient and checkBan
Connect(c, addr) ==
  /\ reading = Nobody
  /\ client[c].status = "none"
  /\ client' = [client EXCEPT ![c] =
                  NewClient(addr, IF StillBanned(addr) THEN "destroyed" ELSE "open")]
  /\ banned' = [banned EXCEPT ![addr] = IF StillBanned(addr) THEN @ ELSE NoBan]
  /\ UNCHANGED <<reading, nonces>>

\* The 'close' event: the peer left, or the socket was destroyed.
Close(c) ==
  /\ reading = Nobody
  /\ client[c].status # "none"
  /\ client' = [client EXCEPT ![c] = NewClient(client[c].addr, "none")]
  /\ UNCHANGED <<reading, banned, nonces>>

\* A chunk of more than 10 KB without being handled.
Flooded(c) ==
  /\ reading = Nobody
  /\ client[c].status = "open"
  /\ client' = [client EXCEPT ![c].status = "destroyed"]
  /\ UNCHANGED <<reading, banned, nonces>>

ReadChunk(c) ==
  /\ reading = Nobody
  /\ client[c].status = "open"
  /\ reading' = c
  /\ UNCHANGED <<client, banned, nonces>>

EndChunk ==
  /\ reading # Nobody
  /\ reading' = Nobody
  /\ UNCHANGED <<client, banned, nonces>>

-------------------------------------------------------------------------------
(* Messages *)

MalformedMessage(c) ==
  /\ reading = c
  /\ client' = [client EXCEPT ![c].status = "destroyed"]
  /\ UNCHANGED <<reading, banned, nonces>>

\* A slip: a number the connection already has is not replaced, the counter
\* does not move for the others either.
SubscribeSameNonce(c) ==
  /\ reading = c
  /\ nonces < NoncesFrom + MaxSubscribes
  /\ LET k == [client[c] EXCEPT !.nonce = NoncesFrom]
     IN  client' = [client EXCEPT ![c] = SendMiningJob(SendDifficulty(k, PortDiff), FALSE)]
  /\ UNCHANGED <<reading, banned, nonces>>

\* handleSubscribe, and the subscription handler of pool.js.
Subscribe(c) ==
  /\ reading = c
  /\ nonces < NoncesFrom + MaxSubscribes
  /\ nonces' = nonces + 1
  /\ LET k == [client[c] EXCEPT !.nonce = IF nonces < 0 THEN -nonces ELSE nonces]
     IN  client' = [client EXCEPT ![c] = SendMiningJob(SendDifficulty(k, PortDiff), FALSE)]
  /\ UNCHANGED <<reading, banned>>

\* handleAuthorize asks the portal.
Authorize(c) ==
  /\ reading = c
  /\ client[c].auths < MaxAuths
  /\ client' = [client EXCEPT ![c].auths = @ + 1]
  /\ UNCHANGED <<reading, banned, nonces>>

\* A slip: the answer comes whether or not one is waited for.
AuthAnswerAgain(c, authorized) ==
  /\ reading = Nobody
  /\ client' = [client EXCEPT ![c].auths = @ - 1, ![c].authorized = authorized]
  /\ UNCHANGED <<reading, banned, nonces>>

\* The portal's answer, for a client that may be gone in the meantime.
AuthAnswer(c, authorized) ==
  /\ reading = Nobody
  /\ client[c].auths > 0
  /\ client' = [client EXCEPT ![c].auths = @ - 1, ![c].authorized = authorized]
  /\ UNCHANGED <<reading, banned, nonces>>

Ready(k) == k.authorized /\ Subscribed(k)

\* handleSubmit, "unauthorized worker" and "not subscribed".
SubmitUnready(c) ==
  /\ reading = c
  /\ ~Ready(client[c])
  /\ client[c].valid + client[c].invalid < MaxSubmits
  /\ ConsiderBan(c, [client[c] EXCEPT !.idle = FALSE], FALSE)
  /\ UNCHANGED <<reading, nonces>>

\* handleSubmit of a share the job manager judges.  varDiff's listener runs
\* first and may leave a difficulty for the next job.
SubmitShare(c, shareValid, retarget) ==
  /\ reading = c
  /\ Ready(client[c])
  /\ client[c].valid + client[c].invalid < MaxSubmits
  /\ ConsiderBan(c, [client[c] EXCEPT !.idle = FALSE,
                                      !.pending = IF retarget = 0 THEN @ ELSE retarget],
                 shareValid)
  /\ UNCHANGED <<reading, nonces>>

-------------------------------------------------------------------------------
(* Broadcasts and timers *)

\* broadcastMiningJobs after newBlock or updatedBlock.
Broadcast(newBlock) ==
  /\ reading = Nobody
  /\ client' = [c \in Conns |-> IF c \in Members THEN SendMiningJob(client[c], newBlock)
                                ELSE client[c]]
  /\ UNCHANGED <<reading, banned, nonces>>

\* connectionTimeout has passed since lastActivity.
BecomeIdle(c) ==
  /\ reading = Nobody
  /\ client[c].status = "open" /\ ~client[c].idle
  /\ client' = [client EXCEPT ![c].idle = TRUE]
  /\ UNCHANGED <<reading, banned, nonces>>

\* A slip: the young bans are deleted instead of the old ones.
PurgeYoung ==
  /\ reading = Nobody /\ BanningEnabled
  /\ banned' = [a \in Addrs |-> IF banned[a] # NoBan /\ banned[a] < BanTime
                                THEN NoBan ELSE banned[a]]
  /\ UNCHANGED <<client, reading, nonces>>

\* The purge interval: bannedIPs is searched for old bans.
Purge ==
  /\ reading = Nobody /\ BanningEnabled
  /\ banned' = [a \in Addrs |-> IF banned[a] # NoBan /\ banned[a] > BanTime
                                THEN NoBan ELSE banned[a]]
  /\ UNCHANGED <<client, reading, nonces>>

\* Date.now() goes on.
Tick ==
  /\ reading = Nobody
  /\ banned' = [a \in Addrs |-> IF banned[a] = NoBan \/ banned[a] = Expired
                                THEN banned[a] ELSE banned[a] + 1]
  /\ UNCHANGED <<client, reading, nonces>>

-------------------------------------------------------------------------------
ServerInit ==
  /\ \E addr \in Addrs : client = [c \in Conns |-> NewClient(addr, "none")]
  /\ reading = Nobody
  /\ banned = [a \in Addrs |-> NoBan]
  /\ nonces = NoncesFrom

ClientStep ==
  \E c \in Conns :
    \/ Close(c) \/ Flooded(c) \/ ReadChunk(c) \/ BecomeIdle(c)
    \/ MalformedMessage(c) \/ Subscribe(c) \/ Authorize(c) \/ SubmitUnready(c)
    \/ \E authorized \in BOOLEAN : AuthAnswer(c, authorized)

LoopStep ==
  \/ EndChunk
  \/ \E newBlock \in BOOLEAN : Broadcast(newBlock)
  \/ Purge

ServerNext ==
  \/ \E c \in Conns, addr \in Addrs : Connect(c, addr)
  \/ \E c \in Conns, shareValid \in BOOLEAN, retarget \in VarDiffs \cup {0} :
       SubmitShare(c, shareValid, retarget)
  \/ ClientStep \/ LoopStep \/ Tick

ServerSpec == ServerInit /\ [][ServerNext]_serverVars

(***************************************************************************)
(* The event loop finishes a chunk and runs its timers however busy the    *)
(* sockets are: the purge interval, the rebroadcast (whose feed must keep  *)
(* going, see TemplateFeed), and the clock.                                *)
(***************************************************************************)
FairServerSpec ==
  /\ ServerSpec
  /\ WF_serverVars(EndChunk)
  /\ SF_serverVars(Broadcast(FALSE)) /\ SF_serverVars(Purge) /\ SF_serverVars(Tick)

-------------------------------------------------------------------------------
(* What must hold *)

\* The types of the variables.
ServerTypeOK ==
  /\ client \in [Conns -> Client]
  /\ reading \in Conns \cup {Nobody}
  /\ banned \in [Addrs -> (0 .. Expired) \cup {NoBan}]
  /\ nonces \in NoncesFrom .. NoncesFrom + MaxSubscribes

\* "Unique extranonce per subscriber" (jobManager.js:13): two connections never
\* search the same space, so neither can be refused a share of the other's as a
\* duplicate.
NoncesDistinct ==
  \A c, d \in Conns :
    c # d /\ Subscribed(client[c]) => client[c].nonce # client[d].nonce

\* What sendDifficulty remembers of the jobs that are out: they went out at the
\* client's difficulty or, once it changed, the one before.
Remembered(k) ==
  /\ k.difficulty = 0 => k.told = {}
  /\ k.changes = 0 => k.told \subseteq {k.difficulty}
  /\ k.changes = 1 => k.told \subseteq {k.difficulty, k.previous}

\* The inductive invariant behind HonestShareCounts.
ServerInv ==
  /\ ServerTypeOK
  /\ \A c \in Conns : /\ Remembered(client[c])
                      /\ Subscribed(client[c]) => client[c].difficulty # 0

\* A share found at the difficulty of any job that is still valid is accepted,
\* as long as the difficulty changed at most once since the last new block:
\* sendDifficulty keeps the difficulty before for jobs that are still out.
HonestShareCounts ==
  \A c \in Members :
    client[c].changes <= 1 =>
      \A d \in client[c].told : MeetsDifficulty(d, client[c].difficulty, client[c].previous)

\* No connection is admitted while its address is in bannedIPs (checkBan), no
\* matter which connection got it banned and when it is purged.
AdmittedIsForgiven ==
  [][\A c \in Conns :
       client[c].status = "none" /\ client'[c].status = "open"
         => banned'[client'[c].addr] = NoBan]_serverVars

\* A ban does not stay in bannedIPs for ever: it is deleted, or a new one takes
\* its place ("in order to prevent a memory leak", stratum.js:401).
BansPurged ==
  \A a \in Addrs : banned[a] \in 1 .. Expired ~> banned[a] \in {NoBan, 0}

\* A miner that stops submitting loses its connection (connectionTimeout,
\* engine/README.md:200), as long as jobs are sent.
IdleDropped ==
  \A c \in Conns :
    client[c].status = "open" /\ client[c].idle
      ~> client[c].status # "open" \/ ~client[c].idle

\* "reset shares" (stratum.js:47): a client that passed the check starts to
\* count again, so that an open connection is always below the threshold.
SharesReset ==
  \A c \in Conns :
    client[c].status = "open" => client[c].valid + client[c].invalid < CheckThreshold
===============================================================================
