-------------------------- MODULE StratumServerProofs --------------------------
(***************************************************************************)
(* The stratum server, alone and with the variable difficulty.  For every  *)
(* number of connections and addresses and every configuration: honest     *)
(* work counts, extranonces differ and banned addresses stay out; the ring *)
(* buffer's average is that of the last times between shares; and what it  *)
(* makes varDiff ask for keeps to what the server without it allows.       *)
(***************************************************************************)
EXTENDS RetargetServer, SumProofs

-------------------------------------------------------------------------------
(* The server alone *)

LEMMA DifficultiesPositive == Difficulties \subseteq Nat \ {0}
  BY StratumAssumption DEF Difficulties

LEMMA NewClientType ==
  ASSUME NEW addr \in Addrs, NEW status \in Statuses
  PROVE  /\ NewClient(addr, status) \in Client
         /\ Remembered(NewClient(addr, status))
         /\ ~Subscribed(NewClient(addr, status))
         /\ NewClient(addr, status).status = status
         /\ NewClient(addr, status).addr = addr
  BY StratumAssumption DEF NewClient, Client, Remembered, Subscribed, NoNonce

\* Sending a difficulty keeps what is remembered, and the rest of the client.
LEMMA SendDifficultyKeeps ==
  ASSUME NEW k \in Client, Remembered(k), NEW d \in Difficulties
  PROVE  /\ SendDifficulty(k, d) \in Client
         /\ Remembered(SendDifficulty(k, d))
         /\ SendDifficulty(k, d).difficulty = d
         /\ SendDifficulty(k, d).nonce = k.nonce
         /\ SendDifficulty(k, d).status = k.status
         /\ SendDifficulty(k, d).idle = k.idle
<1>1. CASE d = k.difficulty
  BY <1>1 DEF SendDifficulty
<1>2. CASE d # k.difficulty
  <2> DEFINE counts == IF k.difficulty = 0 \/ k.changes = 2 THEN k.changes ELSE k.changes + 1
  <2>1. SendDifficulty(k, d) = [k EXCEPT !.previous = k.difficulty, !.difficulty = d,
                                         !.changes = counts]
    BY <1>2 DEF SendDifficulty
  <2>2. counts \in 0 .. 2 /\ (counts = 0 => k.difficulty = 0)
        /\ (counts = 1 => k.changes = 0 \/ k.difficulty = 0)
    BY DEF Client
  <2> HIDE DEF counts
  <2>3. SendDifficulty(k, d) \in Client
    BY <2>1, <2>2 DEF Client
  <2>4. Remembered(SendDifficulty(k, d))
    BY <2>1, <2>2, DifficultiesPositive DEF Client, Remembered
  <2> QED
    BY <2>1, <2>3, <2>4 DEF Client
<1> QED
  BY <1>1, <1>2

\* So does telling a job.
LEMMA ToldKeeps ==
  ASSUME NEW k \in Client, Remembered(k), NEW newBlock \in BOOLEAN,
         Subscribed(k) => k.difficulty # 0
  PROVE  /\ Told(k, newBlock) \in Client
         /\ Remembered(Told(k, newBlock))
         /\ Told(k, newBlock).difficulty = k.difficulty
         /\ Told(k, newBlock).nonce = k.nonce
         /\ Told(k, newBlock).status = k.status
<1> DEFINE kept == IF newBlock THEN {} ELSE k.told
           added == IF Subscribed(k) THEN {k.difficulty} ELSE {}
           counts == IF newBlock THEN 0 ELSE k.changes
<1>1. Told(k, newBlock) = [k EXCEPT !.told = kept \cup added, !.changes = counts]
  BY DEF Told
<1>2. /\ counts \in 0 .. 2 /\ kept \subseteq Difficulties /\ added \subseteq Difficulties
      /\ kept \subseteq k.told /\ added \subseteq {k.difficulty}
      /\ k.difficulty = 0 => added = {}
      /\ kept = {} \/ counts = k.changes
  BY DEF Client
<1> HIDE DEF kept, added, counts
<1>3. Told(k, newBlock) \in Client
  BY <1>1, <1>2 DEF Client
<1>4. Remembered(Told(k, newBlock))
  BY <1>1, <1>2 DEF Client, Remembered
<1> QED
  BY <1>1, <1>3, <1>4 DEF Client

LEMMA SendMiningJobKeeps ==
  ASSUME NEW k \in Client, Remembered(k), NEW newBlock \in BOOLEAN,
         Subscribed(k) => k.difficulty # 0
  PROVE  /\ SendMiningJob(k, newBlock) \in Client
         /\ Remembered(SendMiningJob(k, newBlock))
         /\ Subscribed(SendMiningJob(k, newBlock)) => SendMiningJob(k, newBlock).difficulty # 0
         /\ SendMiningJob(k, newBlock).nonce = k.nonce
         /\ SendMiningJob(k, newBlock).status \in {k.status, "destroyed"}
<1>1. CASE k.idle
  BY <1>1 DEF SendMiningJob, Client, Remembered, Subscribed, Statuses
<1>2. CASE ~k.idle /\ k.pending = 0
  BY <1>2, ToldKeeps DEF SendMiningJob, Subscribed
<1>3. CASE ~k.idle /\ k.pending # 0
  <2> DEFINE changed == SendDifficulty(k, k.pending)
             sent == [changed EXCEPT !.pending = 0]
  <2>1. k.pending \in Difficulties
    BY <1>3 DEF Client, Difficulties
  <2>2. /\ changed \in Client /\ Remembered(changed) /\ changed.difficulty = k.pending
        /\ changed.nonce = k.nonce /\ changed.status = k.status
    BY <2>1, SendDifficultyKeeps
  <2> HIDE DEF changed
  <2>3. /\ sent \in Client /\ Remembered(sent) /\ sent.difficulty # 0
        /\ sent.nonce = k.nonce /\ sent.status = k.status
    BY <2>1, <2>2, <1>3 DEF Client, Remembered
  <2>4. SendMiningJob(k, newBlock) = Told(sent, newBlock)
    BY <1>3 DEF SendMiningJob, changed
  <2> HIDE DEF sent
  <2> QED
    BY <2>3, <2>4, ToldKeeps DEF Subscribed
<1> QED
  BY <1>1, <1>2, <1>3

\* Counting a share does not touch what is remembered.
LEMMA CountedKeeps ==
  ASSUME NEW k \in Client, Remembered(k), NEW shareValid \in BOOLEAN
  PROVE  /\ Counted(k, shareValid) \in Client
         /\ Remembered(Counted(k, shareValid))
         /\ Counted(k, shareValid).difficulty = k.difficulty
         /\ Counted(k, shareValid).nonce = k.nonce
         /\ Counted(k, shareValid).status = k.status
         /\ Counted(k, shareValid).addr = k.addr
  BY DEF Counted, Client, Remembered
-------------------------------------------------------------------------------
(* The inductive invariant *)

Keeps(k) == k \in Client /\ Remembered(k) /\ (Subscribed(k) => k.difficulty # 0)

LEMMA ClientKeeps ==
  ASSUME ServerInv, NEW c \in Conns
  PROVE  Keeps(client[c])
  BY DEF ServerInv, ServerTypeOK, Keeps

\* Changes outside the difficulties and the jobs.
LEMMA OtherFieldsKeep ==
  ASSUME NEW k, Keeps(k)
  PROVE  /\ \A status \in Statuses : Keeps([k EXCEPT !.status = status])
         /\ \A auths \in 0 .. MaxAuths : Keeps([k EXCEPT !.auths = auths])
         /\ \A authorized \in BOOLEAN : Keeps([k EXCEPT !.authorized = authorized])
         /\ \A idle \in BOOLEAN : Keeps([k EXCEPT !.idle = idle])
         /\ \A pending \in VarDiffs \cup {0} : Keeps([k EXCEPT !.pending = pending])
  BY DEF Keeps, Client, Remembered, Subscribed

LEMMA BansType ==
  ASSUME ServerTypeOK, NEW addr \in Addrs, NEW age \in {0, NoBan}
  PROVE  [banned EXCEPT ![addr] = age] \in [Addrs -> (0 .. Expired) \cup {NoBan}]
<1>1. 0 \in 0 .. Expired
  BY StratumAssumption DEF Expired
<1> QED
  BY <1>1 DEF ServerTypeOK

\* One client changes.
LEMMA OneClient ==
  ASSUME ServerInv, NEW c \in Conns, NEW k, Keeps(k),
         client' = [client EXCEPT ![c] = k],
         reading' = reading, banned' \in [Addrs -> (0 .. Expired) \cup {NoBan}],
         nonces' \in NoncesFrom .. NoncesFrom + MaxSubscribes
  PROVE  ServerInv'
<1>1. client' \in [Conns -> Client] /\ \A o \in Conns : Keeps(client'[o])
  BY ClientKeeps DEF ServerInv, ServerTypeOK, Keeps
<1> QED
  BY <1>1 DEF ServerInv, ServerTypeOK, Keeps, Remembered, Subscribed

LEMMA ConsiderBanKeeps ==
  ASSUME ServerInv, NEW c \in Conns, NEW k, Keeps(k), NEW shareValid \in BOOLEAN,
         ConsiderBan(c, k, shareValid), UNCHANGED <<reading, nonces>>
  PROVE  ServerInv'
<1> DEFINE counted == Counted(k, shareValid)
<1>1. Keeps(counted) /\ counted.addr = k.addr
  BY CountedKeeps DEF Keeps, Subscribed
<1>2. Keeps([counted EXCEPT !.status = "destroyed"])
  BY <1>1, OtherFieldsKeep DEF Statuses
<1>3. nonces' \in NoncesFrom .. NoncesFrom + MaxSubscribes /\ reading' = reading
  BY DEF ServerInv, ServerTypeOK
<1>4. CASE Bannable(counted)
  <2>1. client' = [client EXCEPT ![c] = [counted EXCEPT !.status = "destroyed"]]
        /\ banned' = [banned EXCEPT ![k.addr] = 0]
    BY <1>4 DEF ConsiderBan
  <2>2. k.addr \in Addrs
    BY DEF Keeps, Client
  <2>3. banned' \in [Addrs -> (0 .. Expired) \cup {NoBan}]
    BY <2>1, <2>2, BansType DEF ServerInv
  <2> HIDE DEF counted
  <2> QED
    BY <1>2, <1>3, <2>1, <2>3, OneClient
<1>5. CASE ~Bannable(counted)
  <2>1. client' = [client EXCEPT ![c] = counted] /\ banned' = banned
    BY <1>5 DEF ConsiderBan
  <2>2. banned' \in [Addrs -> (0 .. Expired) \cup {NoBan}]
    BY <2>1 DEF ServerInv, ServerTypeOK
  <2> HIDE DEF counted
  <2> QED
    BY <1>1, <1>3, <2>1, <2>2, OneClient
<1> QED
  BY <1>4, <1>5

LEMMA ServerInvInit == ServerInit => ServerInv
<1> SUFFICES ASSUME ServerInit
             PROVE  ServerInv
  OBVIOUS
<1>1. PICK addr \in Addrs : client = [c \in Conns |-> NewClient(addr, "none")]
  BY DEF ServerInit
<1>2. \A c \in Conns : client[c] \in Client /\ Remembered(client[c]) /\ ~Subscribed(client[c])
  BY <1>1, NewClientType DEF Statuses
<1> QED
  BY <1>1, <1>2, StratumAssumption DEF ServerInit, ServerInv, ServerTypeOK

LEMMA ServerInvConnection ==
  ASSUME ServerInv, NEW c \in Conns,
         \/ \E addr \in Addrs : Connect(c, addr)
         \/ Close(c) \/ Flooded(c) \/ ReadChunk(c) \/ BecomeIdle(c)
  PROVE  ServerInv'
<1> USE DEF Statuses
<1>1. ASSUME NEW addr \in Addrs, Connect(c, addr)
      PROVE  ServerInv'
  <2> DEFINE status == IF StillBanned(addr) THEN "destroyed" ELSE "open"
             age == IF StillBanned(addr) THEN banned[addr] ELSE NoBan
  <2>1. /\ client' = [client EXCEPT ![c] = NewClient(addr, status)]
        /\ banned' = [banned EXCEPT ![addr] = age]
        /\ reading' = reading /\ nonces' = nonces
    BY <1>1 DEF Connect
  <2>2. Keeps(NewClient(addr, status))
    BY NewClientType DEF Keeps
  <2>3. banned' \in [Addrs -> (0 .. Expired) \cup {NoBan}]
    BY <2>1 DEF ServerInv, ServerTypeOK
  <2>4. nonces' \in NoncesFrom .. NoncesFrom + MaxSubscribes
    BY <2>1 DEF ServerInv, ServerTypeOK
  <2> HIDE DEF status, age
  <2> QED
    BY <2>1, <2>2, <2>3, <2>4, OneClient
<1>2. CASE Close(c)
  <2>1. client[c].addr \in Addrs
    BY ClientKeeps DEF Keeps, Client
  <2>2. Keeps(NewClient(client[c].addr, "none"))
    BY <2>1, NewClientType DEF Keeps
  <2> QED
    BY <1>2, <2>2, OneClient DEF Close, ServerInv, ServerTypeOK
<1>3. CASE Flooded(c)
  <2>1. client' = [client EXCEPT ![c] = [client[c] EXCEPT !.status = "destroyed"]]
    BY <1>3 DEF Flooded, ServerInv, ServerTypeOK
  <2> QED
    BY <1>3, <2>1, ClientKeeps, OtherFieldsKeep, OneClient DEF Flooded, ServerInv, ServerTypeOK
<1>4. CASE ReadChunk(c)
  BY <1>4 DEF ReadChunk, ServerInv, ServerTypeOK
<1>5. CASE BecomeIdle(c)
  <2>1. client' = [client EXCEPT ![c] = [client[c] EXCEPT !.idle = TRUE]]
    BY <1>5 DEF BecomeIdle, ServerInv, ServerTypeOK
  <2> QED
    BY <1>5, <2>1, ClientKeeps, OtherFieldsKeep, OneClient DEF BecomeIdle, ServerInv, ServerTypeOK
<1> QED
  BY <1>1, <1>2, <1>3, <1>4, <1>5

\* What a subscription makes of the client.
LEMMA SubscribeKeeps ==
  ASSUME ServerInv, NEW c \in Conns, Subscribe(c)
  PROVE  \E k : /\ Keeps(k) /\ client' = [client EXCEPT ![c] = k]
                /\ k.nonce = (IF nonces < 0 THEN -nonces ELSE nonces)
                /\ k.status \in {client[c].status, "destroyed"}
<1> DEFINE n == IF nonces < 0 THEN -nonces ELSE nonces
           k == [client[c] EXCEPT !.nonce = n]
           told == SendMiningJob(SendDifficulty(k, PortDiff), FALSE)
<1>1. client' = [client EXCEPT ![c] = told]
  BY DEF Subscribe
<1>2. nonces \in Int /\ PortDiff \in Difficulties /\ PortDiff # 0
  BY StratumAssumption DEF ServerInv, ServerTypeOK, Difficulties
<1>3. n \in Nat
  BY <1>2
<1> HIDE DEF n
<1>4. /\ k \in Client /\ Remembered(k)
      /\ k.nonce = n /\ k.status = client[c].status
  BY <1>3, ClientKeeps DEF Keeps, Client, Remembered
<1> HIDE DEF k
<1>5. /\ SendDifficulty(k, PortDiff) \in Client /\ Remembered(SendDifficulty(k, PortDiff))
      /\ SendDifficulty(k, PortDiff).difficulty # 0
      /\ SendDifficulty(k, PortDiff).nonce = n
      /\ SendDifficulty(k, PortDiff).status = client[c].status
  BY <1>2, <1>4, SendDifficultyKeeps
<1>6. Keeps(told) /\ told.nonce = n /\ told.status \in {client[c].status, "destroyed"}
  BY <1>5, SendMiningJobKeeps DEF Keeps
<1> QED
  BY <1>1, <1>6 DEF n

LEMMA ServerInvMessage ==
  ASSUME ServerInv, NEW c \in Conns,
         \/ MalformedMessage(c) \/ Subscribe(c) \/ Authorize(c) \/ SubmitUnready(c)
         \/ \E authorized \in BOOLEAN : AuthAnswer(c, authorized)
         \/ \E shareValid \in BOOLEAN, retarget \in VarDiffs \cup {0} :
              SubmitShare(c, shareValid, retarget)
  PROVE  ServerInv'
<1>0. /\ Keeps(client[c]) /\ client[c].auths \in 0 .. MaxAuths /\ client[c].pending \in VarDiffs \cup {0}
      /\ MaxAuths \in Nat
  BY ClientKeeps, StratumAssumption DEF Keeps, Client
<1>1. CASE MalformedMessage(c)
  <2>1. client' = [client EXCEPT ![c] = [client[c] EXCEPT !.status = "destroyed"]]
    BY <1>1 DEF MalformedMessage, ServerInv, ServerTypeOK
  <2> QED
    BY <1>0, <1>1, <2>1, OtherFieldsKeep, OneClient
    DEF MalformedMessage, ServerInv, ServerTypeOK, Statuses
<1>2. CASE Subscribe(c)
  <2>1. PICK k : Keeps(k) /\ client' = [client EXCEPT ![c] = k]
    BY <1>2, SubscribeKeeps
  <2>2. nonces' \in NoncesFrom .. NoncesFrom + MaxSubscribes
    BY <1>2, StratumAssumption DEF Subscribe, ServerInv, ServerTypeOK
  <2>3. reading' = reading /\ banned' \in [Addrs -> (0 .. Expired) \cup {NoBan}]
    BY <1>2 DEF Subscribe, ServerInv, ServerTypeOK
  <2> QED
    BY <2>1, <2>2, <2>3, OneClient
<1>3. CASE Authorize(c)
  <2>1. client' = [client EXCEPT ![c] = [client[c] EXCEPT !.auths = client[c].auths + 1]]
    BY <1>3 DEF Authorize, ServerInv, ServerTypeOK
  <2>2. client[c].auths + 1 \in 0 .. MaxAuths
    BY <1>0, <1>3 DEF Authorize
  <2>3. Keeps([client[c] EXCEPT !.auths = client[c].auths + 1])
    BY <1>0, <2>2, OtherFieldsKeep
  <2> QED
    BY <1>3, <2>1, <2>3, OneClient DEF Authorize, ServerInv, ServerTypeOK
<1>4. CASE SubmitUnready(c)
  <2>1. Keeps([client[c] EXCEPT !.idle = FALSE])
    BY <1>0, OtherFieldsKeep
  <2> QED
    BY <1>4, <2>1, ConsiderBanKeeps DEF SubmitUnready
<1>5. ASSUME NEW authorized \in BOOLEAN, AuthAnswer(c, authorized)
      PROVE  ServerInv'
  <2> DEFINE answered == [client[c] EXCEPT !.auths = client[c].auths - 1]
  <2>1. client' = [client EXCEPT ![c] = [answered EXCEPT !.authorized = authorized]]
    BY <1>5 DEF AuthAnswer, ServerInv, ServerTypeOK
  <2>2. client[c].auths - 1 \in 0 .. MaxAuths
    BY <1>0, <1>5 DEF AuthAnswer
  <2>3. Keeps(answered)
    BY <1>0, <2>2, OtherFieldsKeep
  <2> HIDE DEF answered
  <2>4. Keeps([answered EXCEPT !.authorized = authorized])
    BY <2>3, OtherFieldsKeep
  <2> QED
    BY <1>5, <2>1, <2>4, OneClient DEF AuthAnswer, ServerInv, ServerTypeOK
<1>6. ASSUME NEW shareValid \in BOOLEAN, NEW retarget \in VarDiffs \cup {0},
             SubmitShare(c, shareValid, retarget)
      PROVE  ServerInv'
  <2> DEFINE pending == IF retarget = 0 THEN client[c].pending ELSE retarget
             active == [client[c] EXCEPT !.idle = FALSE]
             k == [active EXCEPT !.pending = pending]
  <2>1. Keeps(active)
    BY <1>0, OtherFieldsKeep
  <2>2. pending \in VarDiffs \cup {0}
    BY <1>0
  <2>3. [client[c] EXCEPT !.idle = FALSE,
                          !.pending = IF retarget = 0 THEN @ ELSE retarget] = k
    BY <1>0 DEF Keeps, Client
  <2> HIDE DEF pending, active
  <2>4. Keeps(k)
    BY <2>1, <2>2, OtherFieldsKeep
  <2> HIDE DEF k
  <2>5. ConsiderBan(c, k, shareValid) /\ UNCHANGED <<reading, nonces>>
    BY <1>6, <2>3 DEF SubmitShare
  <2> QED
    BY <2>4, <2>5, ConsiderBanKeeps
<1> QED
  BY <1>1, <1>2, <1>3, <1>4, <1>5, <1>6

LEMMA ServerInvLoop ==
  ASSUME ServerInv, LoopStep \/ Tick
  PROVE  ServerInv'
<1>1. CASE EndChunk
  BY <1>1 DEF EndChunk, ServerInv, ServerTypeOK
<1>2. ASSUME NEW newBlock \in BOOLEAN, Broadcast(newBlock)
      PROVE  ServerInv'
  <2>1. \A c \in Conns : Keeps(SendMiningJob(client[c], newBlock))
    BY ClientKeeps, SendMiningJobKeeps DEF Keeps
  <2>2. client' = [c \in Conns |-> IF c \in Members THEN SendMiningJob(client[c], newBlock)
                                   ELSE client[c]]
    BY <1>2 DEF Broadcast
  <2>3. client' \in [Conns -> Client] /\ \A c \in Conns : Keeps(client'[c])
    BY <2>1, <2>2, ClientKeeps DEF Keeps
  <2> QED
    BY <1>2, <2>3 DEF Broadcast, ServerInv, ServerTypeOK, Keeps, Remembered, Subscribed
<1>3. CASE Purge
  BY <1>3 DEF Purge, ServerInv, ServerTypeOK
<1>4. CASE Tick
  <2>1. Expired \in Nat
    BY StratumAssumption DEF Expired
  <2>2. \A a \in Addrs : banned[a] \in (0 .. Expired) \cup {NoBan}
    BY DEF ServerInv, ServerTypeOK
  <2>3. \A a \in Addrs : (IF banned[a] = NoBan \/ banned[a] = Expired
                          THEN banned[a] ELSE banned[a] + 1) \in (0 .. Expired) \cup {NoBan}
    BY <2>1, <2>2
  <2> QED
    BY <1>4, <2>3 DEF Tick, ServerInv, ServerTypeOK
<1> QED
  BY <1>1, <1>2, <1>3, <1>4 DEF LoopStep

LEMMA ServerInvStep == ServerInv /\ [ServerNext]_serverVars => ServerInv'
<1> SUFFICES ASSUME ServerInv, [ServerNext]_serverVars
             PROVE  ServerInv'
  OBVIOUS
<1>1. CASE UNCHANGED serverVars
  BY <1>1 DEF serverVars, ServerInv, ServerTypeOK
<1>2. CASE ClientStep
  BY <1>2, ServerInvConnection, ServerInvMessage DEF ClientStep
<1>3. CASE LoopStep \/ Tick
  BY <1>3, ServerInvLoop
<1>4. ASSUME NEW c \in Conns, NEW addr \in Addrs, Connect(c, addr)
      PROVE  ServerInv'
  BY <1>4, ServerInvConnection
<1>5. ASSUME NEW c \in Conns, NEW shareValid \in BOOLEAN, NEW retarget \in VarDiffs \cup {0},
             SubmitShare(c, shareValid, retarget)
      PROVE  ServerInv'
  BY <1>5, ServerInvMessage
<1> QED
  BY <1>1, <1>2, <1>3, <1>4, <1>5 DEF ServerNext

\* The types of every variable and what sendDifficulty remembers of the jobs
\* that are out (stratum.js, sendDifficulty and sendMiningJob).
LEMMA ServerInvariant == ServerSpec => []ServerInv
  BY ServerInvInit, ServerInvStep, PTL DEF ServerSpec

\* Type correctness for any number of connections and any configuration.
THEOREM ServerTypeCorrect == ServerSpec => []ServerTypeOK
<1>1. ServerInv => ServerTypeOK
  BY DEF ServerInv
<1> QED
  BY <1>1, ServerInvariant, PTL

\* A share found at the difficulty of a job that is still out is accepted
\* (processShare with the difficulties sendDifficulty left), if the difficulty
\* changed at most once since the last block.
THEOREM HonestSharesAlwaysCount == ServerSpec => []HonestShareCounts
<1>1. ASSUME ServerInv
      PROVE  HonestShareCounts
  <2> SUFFICES ASSUME NEW c \in Members, client[c].changes <= 1, NEW d \in client[c].told
               PROVE  MeetsDifficulty(d, client[c].difficulty, client[c].previous)
    BY DEF HonestShareCounts
  <2>1. /\ Remembered(client[c])
        /\ d \in Nat \ {0} /\ client[c].changes \in 0 .. 2
    BY <1>1, ClientKeeps, DifficultiesPositive DEF Members, Keeps, Client
  <2>2. d = client[c].difficulty \/ d = client[c].previous
    BY <2>1 DEF Remembered
  <2> QED
    BY <2>1, <2>2 DEF MeetsDifficulty, NearlyMeets, MeetsPrevious
<1> QED
  BY <1>1, ServerInvariant, PTL
-------------------------------------------------------------------------------
(* Extranonces and bans *)

\* All but a connection, a subscription: no client gets a number or is admitted.
Unchanging ==
  /\ nonces' = nonces
  /\ \A c \in Conns : /\ client'[c].nonce \in {client[c].nonce, NoNonce}
                      /\ client'[c].status \in {client[c].status, "none", "destroyed"}

LEMMA ConsiderBanUnchanging ==
  ASSUME ServerInv, NEW c \in Conns, NEW k, Keeps(k), NEW shareValid \in BOOLEAN,
         k.nonce = client[c].nonce, k.status = client[c].status,
         ConsiderBan(c, k, shareValid), UNCHANGED nonces
  PROVE  Unchanging
<1> DEFINE counted == Counted(k, shareValid)
<1>1. /\ counted \in Client
      /\ counted.nonce = client[c].nonce /\ counted.status = client[c].status
  BY CountedKeeps DEF Keeps
<1>2. \/ client' = [client EXCEPT ![c] = [counted EXCEPT !.status = "destroyed"]]
      \/ client' = [client EXCEPT ![c] = counted]
  BY DEF ConsiderBan
<1> HIDE DEF counted
<1> QED
  BY <1>1, <1>2 DEF Unchanging, ServerInv, ServerTypeOK, Client

LEMMA StepKinds ==
  ASSUME ServerInv, [ServerNext]_serverVars
  PROVE  \/ Unchanging
         \/ \E c \in Conns : Subscribe(c)
         \/ \E c \in Conns, addr \in Addrs : Connect(c, addr)
<1> SUFFICES ASSUME \A c \in Conns : ~Subscribe(c),
                    \A c \in Conns, addr \in Addrs : ~Connect(c, addr)
             PROVE  Unchanging
  OBVIOUS
<1>0. client \in [Conns -> Client] /\ \A c \in Conns : client[c].addr \in Addrs
  BY DEF ServerInv, ServerTypeOK, Client
<1>1. CASE UNCHANGED serverVars
  BY <1>1 DEF serverVars, Unchanging
<1>2. ASSUME NEW c \in Conns,
             \/ Close(c) \/ Flooded(c) \/ ReadChunk(c) \/ BecomeIdle(c)
             \/ MalformedMessage(c) \/ Authorize(c)
             \/ \E authorized \in BOOLEAN : AuthAnswer(c, authorized)
      PROVE  Unchanging
  <2>1. CASE Close(c)
    <3>1. NewClient(client[c].addr, "none").nonce = NoNonce
          /\ NewClient(client[c].addr, "none").status = "none"
      BY DEF NewClient
    <3> QED
      BY <1>0, <2>1, <3>1 DEF Close, Unchanging
  <2>2. CASE Flooded(c)
    BY <1>0, <2>2 DEF Flooded, Unchanging, Client
  <2>3. CASE ReadChunk(c)
    BY <2>3 DEF ReadChunk, Unchanging
  <2>4. CASE BecomeIdle(c)
    BY <1>0, <2>4 DEF BecomeIdle, Unchanging, Client
  <2>5. CASE MalformedMessage(c)
    BY <1>0, <2>5 DEF MalformedMessage, Unchanging, Client
  <2>6. CASE Authorize(c)
    BY <1>0, <2>6 DEF Authorize, Unchanging, Client
  <2>7. ASSUME NEW authorized \in BOOLEAN, AuthAnswer(c, authorized)
        PROVE  Unchanging
    BY <1>0, <2>7 DEF AuthAnswer, Unchanging, Client
  <2> QED
    BY <1>2, <2>1, <2>2, <2>3, <2>4, <2>5, <2>6, <2>7
<1>3. ASSUME NEW c \in Conns, SubmitUnready(c)
      PROVE  Unchanging
  <2> DEFINE k == [client[c] EXCEPT !.idle = FALSE]
  <2>1. Keeps(k)
    BY ClientKeeps, OtherFieldsKeep
  <2>2. k.nonce = client[c].nonce /\ k.status = client[c].status
    BY <1>0 DEF Client
  <2>3. ConsiderBan(c, k, FALSE) /\ nonces' = nonces
    BY <1>3 DEF SubmitUnready
  <2> HIDE DEF k
  <2> QED
    BY <2>1, <2>2, <2>3, ConsiderBanUnchanging
<1>4. ASSUME NEW c \in Conns, NEW shareValid \in BOOLEAN, NEW retarget \in VarDiffs \cup {0},
             SubmitShare(c, shareValid, retarget)
      PROVE  Unchanging
  <2> DEFINE k == [client[c] EXCEPT !.idle = FALSE,
                                    !.pending = IF retarget = 0 THEN @ ELSE retarget]
  <2>1. Keeps(k)
    BY ClientKeeps DEF Keeps, Client, Remembered, Subscribed
  <2>2. k.nonce = client[c].nonce /\ k.status = client[c].status
    BY <1>0 DEF Client
  <2>3. ConsiderBan(c, k, shareValid) /\ nonces' = nonces
    BY <1>4 DEF SubmitShare
  <2> HIDE DEF k
  <2> QED
    BY <2>1, <2>2, <2>3, ConsiderBanUnchanging
<1>5. CASE LoopStep \/ Tick
  <2>1. ASSUME NEW newBlock \in BOOLEAN, Broadcast(newBlock)
        PROVE  Unchanging
    <3>1. \A c \in Conns :
            /\ SendMiningJob(client[c], newBlock).nonce = client[c].nonce
            /\ SendMiningJob(client[c], newBlock).status \in {client[c].status, "destroyed"}
      BY ClientKeeps, SendMiningJobKeeps DEF Keeps
    <3> QED
      BY <2>1, <3>1 DEF Broadcast, Unchanging
  <2> QED
    BY <1>5, <2>1 DEF LoopStep, EndChunk, Purge, Tick, Unchanging
<1> QED
  BY <1>1, <1>2, <1>3, <1>4, <1>5 DEF ServerNext, ClientStep

\* The counter value a number was made from, as long as the counter does not
\* change its sign.
Drawn(nonce) == IF NoncesFrom < 0 THEN -nonce ELSE nonce

NonceInv ==
  /\ \A c \in Conns : Subscribed(client[c]) =>
       /\ client[c].nonce \in Nat
       /\ Drawn(client[c].nonce) \in NoncesFrom .. (nonces - 1)
  /\ NoncesDistinct

LEMMA NonceInvStep ==
  ASSUME NoncesFrom >= 0 \/ NoncesFrom + MaxSubscribes <= 1,
         ServerInv, NonceInv, [ServerNext]_serverVars
  PROVE  NonceInv'
<1>0. /\ client \in [Conns -> Client] /\ nonces \in Int /\ NoncesFrom \in Int /\ NoNonce = -1
      /\ nonces >= NoncesFrom /\ MaxSubscribes \in Nat
  BY StratumAssumption DEF ServerInv, ServerTypeOK, NoNonce
<1>1. CASE Unchanging
  BY <1>0, <1>1 DEF Unchanging, NonceInv, NoncesDistinct, Subscribed
<1>2. ASSUME NEW c \in Conns, NEW addr \in Addrs, Connect(c, addr)
      PROVE  NonceInv'
  <2> DEFINE status == IF StillBanned(addr) THEN "destroyed" ELSE "open"
  <2>1. /\ client' = [client EXCEPT ![c] = NewClient(addr, status)] /\ nonces' = nonces
        /\ NewClient(addr, status).nonce = NoNonce
    BY <1>2 DEF Connect, NewClient
  <2> HIDE DEF status
  <2> QED
    BY <1>0, <2>1 DEF NonceInv, NoncesDistinct, Subscribed
<1>3. ASSUME NEW c \in Conns, Subscribe(c)
      PROVE  NonceInv'
  <2>1. PICK k : /\ client' = [client EXCEPT ![c] = k]
                 /\ k.nonce = (IF nonces < 0 THEN -nonces ELSE nonces)
    BY <1>3, SubscribeKeeps
  <2>2. nonces' = nonces + 1 /\ nonces < NoncesFrom + MaxSubscribes
    BY <1>3 DEF Subscribe
  <2>3. k.nonce \in Nat /\ Drawn(k.nonce) = nonces
    BY <1>0, <2>1, <2>2 DEF Drawn
  <2>4. \A o \in Conns : client'[o] = IF o = c THEN k ELSE client[o]
    BY <1>0, <2>1
  <2>5. \A o \in Conns : Subscribed(client[o]) => client[o].nonce # k.nonce
    BY <1>0, <2>3 DEF NonceInv, Drawn
  <2>6. \A o \in Conns : Subscribed(client'[o]) =>
          /\ client'[o].nonce \in Nat
          /\ Drawn(client'[o].nonce) \in NoncesFrom .. (nonces' - 1)
    BY <1>0, <2>2, <2>3, <2>4 DEF NonceInv, Drawn
  <2>7. NoncesDistinct'
    BY <2>4, <2>5 DEF NonceInv, NoncesDistinct, Subscribed
  <2> QED
    BY <2>6, <2>7 DEF NonceInv, Subscribed
<1> QED
  BY <1>1, <1>2, <1>3, StepKinds

\* No two connections search the same space (ExtraNonceCounter with Math.abs),
\* whether the counter starts at a positive value or at the negative one of an
\* instance id above 15, as long as it does not cross 0.
THEOREM NoncesAlwaysDistinct ==
  ASSUME NoncesFrom >= 0 \/ NoncesFrom + MaxSubscribes <= 1
  PROVE  ServerSpec => []NoncesDistinct
<1>1. ServerInit => NonceInv
  <2> SUFFICES ASSUME ServerInit
               PROVE  NonceInv
    OBVIOUS
  <2>1. PICK addr \in Addrs : client = [c \in Conns |-> NewClient(addr, "none")]
    BY DEF ServerInit
  <2>2. \A c \in Conns : ~Subscribed(client[c])
    BY <2>1, NewClientType DEF Statuses
  <2> QED
    BY <2>2 DEF NonceInv, NoncesDistinct
<1>2. ServerInv /\ NonceInv /\ [ServerNext]_serverVars => NonceInv'
  BY NonceInvStep
<1>3. NonceInv => NoncesDistinct
  BY DEF NonceInv
<1> QED
  BY <1>1, <1>2, <1>3, ServerInvariant, PTL DEF ServerSpec

\* Nobody is admitted from an address that is banned (checkBan), whichever
\* connection got it banned and whenever the ban is purged.
THEOREM BannedStayOut == ServerSpec => AdmittedIsForgiven
<1>1. ASSUME ServerInv, [ServerNext]_serverVars
      PROVE  [\A c \in Conns :
                client[c].status = "none" /\ client'[c].status = "open"
                  => banned'[client'[c].addr] = NoBan]_serverVars
  <2> SUFFICES ASSUME NEW c \in Conns, client[c].status = "none", client'[c].status = "open"
               PROVE  banned'[client'[c].addr] = NoBan
    OBVIOUS
  <2>0. client \in [Conns -> Client] /\ DOMAIN banned = Addrs
    BY <1>1 DEF ServerInv, ServerTypeOK
  <2>1. ~Unchanging
    BY DEF Unchanging
  <2>2. ASSUME NEW o \in Conns, Subscribe(o)
        PROVE  FALSE
    <3>1. PICK k : /\ client' = [client EXCEPT ![o] = k]
                   /\ k.status \in {client[o].status, "destroyed"}
      BY <1>1, <2>2, SubscribeKeeps
    <3> QED
      BY <2>0, <3>1
  <2>3. ASSUME NEW o \in Conns, NEW addr \in Addrs, Connect(o, addr)
        PROVE  banned'[client'[c].addr] = NoBan
    <3> DEFINE status == IF StillBanned(addr) THEN "destroyed" ELSE "open"
    <3>1. /\ client' = [client EXCEPT ![o] = NewClient(addr, status)]
          /\ banned' = [banned EXCEPT ![addr] = IF StillBanned(addr) THEN banned[addr] ELSE NoBan]
      BY <2>3 DEF Connect
    <3>2. NewClient(addr, status).status = status /\ NewClient(addr, status).addr = addr
      BY NewClientType DEF Statuses
    <3>3. c = o /\ ~StillBanned(addr)
      BY <2>0, <3>1, <3>2
    <3> HIDE DEF status
    <3> QED
      BY <2>0, <3>1, <3>2, <3>3
  <2> QED
    BY <1>1, <2>1, <2>2, <2>3, StepKinds
<1> QED
  BY <1>1, ServerInvariant, PTL DEF ServerSpec, AdmittedIsForgiven

-------------------------------------------------------------------------------
(* The ring buffer *)

LEMMA BufferSizeInt == BufferSize \in Int
  BY VarDiffAssumption DEF VarDiffAssumption, BufferSize

\* A cursor that moves on within the buffer stays in it and wraps at its end.
LEMMA CursorWraps ==
  ASSUME NEW size \in Nat \ {0}, NEW cursor \in 0 .. size - 1
  PROVE  (cursor + 1) % size = IF cursor + 1 = size THEN 0 ELSE cursor + 1
<1>1. CASE cursor + 1 = size
  <2>1. size % size = 0
    OBVIOUS
  <2> QED
    BY <1>1, <2>1
<1>2. CASE cursor + 1 # size
  BY <1>2
<1> QED
  BY <1>1, <1>2

-------------------------------------------------------------------------------

Ring == [data : Seq(Nat), cursor : Nat, isFull : BOOLEAN]

\* The buffer in its two phases: filling up, with the cursor after the last
\* time, and full, with the cursor on the oldest.
Phase(ring) ==
  IF ring.isFull
  THEN SizeIsInteger /\ Len(ring.data) = BufferSize /\ ring.cursor < BufferSize
  ELSE ring.cursor = Len(ring.data) /\ (SizeIsInteger => Len(ring.data) < BufferSize)

\* The buffer holds the times of window, oldest first.
Holds(ring, window) ==
  /\ Len(ring.data) = Len(window)
  /\ \A i \in 1 .. Len(window) : window[i] = ring.data[Slot(ring, i)]

RingOK(ring, window) ==
  ring \in Ring /\ Phase(ring) /\ window \in Seq(Nat) /\ Holds(ring, window)

\* An integer size is not zero: retargetTime is at least a quarter of targetTime.
LEMMA SizePositive == SizeIsInteger => BufferSize > 0
  BY VarDiffAssumption DEF VarDiffAssumption, SizeIsInteger, BufferSize

LEMMA EmptyRingOK == RingOK(EmptyRing, <<>>)
  BY SizePositive DEF RingOK, Ring, Phase, Holds, EmptyRing

\* Where the oldest times are in a full buffer, counted round from the cursor.
Onward(cursor, size)   == IF cursor + 1 = size THEN 0 ELSE cursor + 1
Round(cursor, size, i) == IF cursor + i <= size THEN cursor + i ELSE cursor + i - size

\* After the oldest time is overwritten and the cursor moved on, the i-th time
\* is where the one after it was; the newest is in the slot of the oldest.
LEMMA RoundMovesOn ==
  ASSUME NEW size \in Nat \ {0}, NEW cursor \in 0 .. size - 1,
         NEW next, next = Onward(cursor, size)
  PROVE  /\ next \in 0 .. size - 1
         /\ Round(next, size, size) = cursor + 1
         /\ \A i \in 1 .. size - 1 : /\ Round(next, size, i) = Round(cursor, size, i + 1)
                                     /\ Round(next, size, i) \in 1 .. size
                                     /\ Round(next, size, i) # cursor + 1
<1>1. CASE cursor + 1 = size
  BY <1>1 DEF Round, Onward
<1>2. CASE cursor + 1 # size
  BY <1>2 DEF Round, Onward
<1> QED
  BY <1>1, <1>2

\* A buffer that is not full takes the time at its end, and may become full.
LEMMA AppendFilling ==
  ASSUME NEW ring, NEW window, RingOK(ring, window), NEW x \in Nat, ~ring.isFull
  PROVE  RingOK(RingAppend(ring, x), Append(window, x))
<1> DEFINE new    == RingAppend(ring, x)
           size   == Len(window)
           times  == Append(ring.data, x)
           longer == Append(window, x)
<1>1. /\ window \in Seq(Nat) /\ size \in Nat
      /\ Len(ring.data) = size /\ ring.data \in Seq(Nat) /\ ring.cursor = size
      /\ SizeIsInteger => size < BufferSize
      /\ \A i \in 1 .. size : window[i] = ring.data[i]
  <2>1. ring \in Ring /\ Phase(ring) /\ window \in Seq(Nat) /\ Holds(ring, window)
    BY Zenon DEF RingOK
  <2>2. window \in Seq(Nat) /\ size \in Nat /\ ring.data \in Seq(Nat)
    BY <2>1 DEF Ring
  <2>3. ring.cursor = Len(ring.data) /\ (SizeIsInteger => Len(ring.data) < BufferSize)
    BY <2>1, Zenon DEF Phase
  <2>4. Len(ring.data) = size /\ \A i \in 1 .. size : window[i] = ring.data[Slot(ring, i)]
    BY <2>1, Zenon DEF Holds
  <2>5. \A i \in 1 .. size : Slot(ring, i) = i
    <3>1. \A i \in 1 .. size : i <= Len(ring.data)
      BY <2>2, <2>4
    <3> QED
      BY <3>1, Zenon DEF Slot
  <2>6. \A i \in 1 .. size : window[i] = ring.data[i]
    BY <2>4, <2>5, Zenon
  <2> QED
    BY <2>2, <2>3, <2>4, <2>6, Zenon
<1>2. /\ longer \in Seq(Nat) /\ Len(longer) = size + 1 /\ longer[size + 1] = x
      /\ \A i \in 1 .. size : longer[i] = window[i]
  BY <1>1
<1>3. /\ times \in Seq(Nat) /\ Len(times) = size + 1 /\ times[size + 1] = x
      /\ \A i \in 1 .. size : times[i] = ring.data[i]
  BY <1>1
<1>4. \A i \in 1 .. size + 1 : longer[i] = times[i]
  <2> SUFFICES ASSUME NEW i \in 1 .. size + 1
               PROVE  longer[i] = times[i]
    OBVIOUS
  <2>1. i \in 1 .. size \/ i = size + 1
    BY <1>1
  <2> HIDE DEF longer, times
  <2> QED
    BY <2>1, <1>1, <1>2, <1>3
<1> HIDE DEF times, longer
<1>5. CASE Fills(size + 1)
  <2>1. new = [data |-> times, isFull |-> TRUE, cursor |-> 0]
    BY <1>1, <1>5 DEF RingAppend, times
  <2> HIDE DEF new
  <2>2. new.data = times /\ new.isFull /\ new.cursor = 0 /\ new \in Ring
    BY <2>1, <1>3 DEF Ring
  <2>3. Phase(new)
    BY <2>2, <1>1, <1>3, <1>5 DEF Phase, Fills
  <2>4. Holds(new, longer)
    BY <2>2, <1>1, <1>2, <1>3, <1>4 DEF Holds, Slot
  <2> QED
    BY <2>2, <2>3, <2>4, <1>2 DEF RingOK, new, longer
<1>6. CASE ~Fills(size + 1)
  <2>1. new = [data |-> times, isFull |-> FALSE, cursor |-> size + 1]
    BY <1>1, <1>6 DEF RingAppend, times, Fills, SizeIsInteger
  <2> HIDE DEF new
  <2>2. new.data = times /\ ~new.isFull /\ new.cursor = size + 1 /\ new \in Ring
    BY <2>1, <1>1, <1>3 DEF Ring
  <2>3. Phase(new)
    BY <2>2, <1>1, <1>3, <1>6, BufferSizeInt DEF Phase, Fills
  <2>4. Holds(new, longer)
    BY <2>2, <1>1, <1>2, <1>3, <1>4 DEF Holds, Slot
  <2> QED
    BY <2>2, <2>3, <2>4, <1>2 DEF RingOK, new, longer
<1> QED
  BY <1>5, <1>6

LEMMA DropFirst ==
  ASSUME NEW s \in Seq(Nat), NEW n \in Nat, Len(s) = n + 1
  PROVE  /\ SubSeq(s, 2, n + 1) \in Seq(Nat) /\ Len(SubSeq(s, 2, n + 1)) = n
         /\ \A i \in 1 .. n : SubSeq(s, 2, n + 1)[i] = s[i + 1]
<1>1. SubSeq(s, 2, n + 1) \in Seq(Nat) /\ Len(SubSeq(s, 2, n + 1)) = n
  OBVIOUS
<1>2. \A i \in 1 .. n : SubSeq(s, 2, n + 1)[i] = s[i + 1]
  OBVIOUS
<1> QED
  BY <1>1, <1>2

\* A full one overwrites the oldest time.
LEMMA AppendFull ==
  ASSUME NEW ring, NEW window, RingOK(ring, window), NEW x \in Nat, ring.isFull
  PROVE  RingOK(RingAppend(ring, x), SubSeq(Append(window, x), 2, BufferSize + 1))
<1> DEFINE new   == RingAppend(ring, x)
           size  == Len(window)
           next  == Onward(ring.cursor, size)
           times == [ring.data EXCEPT ![ring.cursor + 1] = x]
           later == SubSeq(Append(window, x), 2, BufferSize + 1)
<1>1. /\ window \in Seq(Nat) /\ size \in Nat
      /\ Len(ring.data) = size /\ ring.data \in Seq(Nat)
      /\ SizeIsInteger /\ size = BufferSize
      /\ size > 0 /\ ring.cursor \in 0 .. size - 1
      /\ \A i \in 1 .. size : window[i] = ring.data[Round(ring.cursor, size, i)]
  <2>1. ring \in Ring /\ Phase(ring) /\ window \in Seq(Nat) /\ Holds(ring, window)
    BY Zenon DEF RingOK
  <2>2. /\ window \in Seq(Nat) /\ size \in Nat /\ ring.data \in Seq(Nat)
        /\ ring.cursor \in Nat
    BY <2>1 DEF Ring
  <2>3. SizeIsInteger /\ Len(ring.data) = BufferSize /\ ring.cursor < BufferSize
    BY <2>1, Zenon DEF Phase
  <2>4. Len(ring.data) = size /\ \A i \in 1 .. size : window[i] = ring.data[Slot(ring, i)]
    BY <2>1, Zenon DEF Holds
  <2>5. \A i \in 1 .. size : Slot(ring, i) = Round(ring.cursor, size, i)
    <3> HIDE DEF size
    <3> QED
      BY <2>2, <2>4 DEF Slot, Round
  <2>6. \A i \in 1 .. size : window[i] = ring.data[Round(ring.cursor, size, i)]
    BY <2>4, <2>5, Zenon
  <2>7. size = BufferSize /\ size > 0 /\ ring.cursor \in 0 .. size - 1
    <3> HIDE DEF size
    <3> QED
      BY <2>2, <2>3, <2>4
  <2> QED
    BY <2>2, <2>3, <2>4, <2>6, <2>7, Zenon
<1>2. /\ times \in Seq(Nat) /\ Len(times) = size /\ times[ring.cursor + 1] = x
      /\ \A k \in 1 .. size : k # ring.cursor + 1 => times[k] = ring.data[k]
  BY <1>1
<1>3. /\ later \in Seq(Nat) /\ Len(later) = size /\ later[size] = x
      /\ \A i \in 1 .. size - 1 : later[i] = window[i + 1]
  <2> DEFINE longer == Append(window, x)
  <2>1. /\ longer \in Seq(Nat) /\ Len(longer) = size + 1 /\ longer[size + 1] = x
        /\ \A i \in 1 .. size : longer[i] = window[i]
    BY <1>1
  <2>2. later = SubSeq(longer, 2, size + 1)
    BY <1>1
  <2> HIDE DEF longer, later
  <2>3. /\ later \in Seq(Nat) /\ Len(later) = size
        /\ \A i \in 1 .. size : later[i] = longer[i + 1]
    BY <2>1, <2>2, <1>1, DropFirst
  <2>4. size \in 1 .. size /\ later[size] = x
    BY <2>1, <2>3, <1>1
  <2>5. ASSUME NEW i \in 1 .. size - 1
        PROVE  later[i] = window[i + 1]
    <3>1. i \in 1 .. size /\ i + 1 \in 1 .. size
      BY <1>1
    <3> QED
      BY <3>1, <2>1, <2>3
  <2> QED
    BY <2>3, <2>4, <2>5
<1>4. /\ new.data = times /\ new.cursor = next /\ new.isFull
      /\ new \in Ring
  <2>1. (ring.cursor + 1) % BufferSize = next
    BY <1>1, CursorWraps DEF Onward
  <2>2. new = [ring EXCEPT !.data = times, !.cursor = next]
    BY <2>1 DEF RingAppend
  <2>3. next \in Nat /\ ring \in Ring
    BY <1>1 DEF RingOK, Onward
  <2> HIDE DEF new, next, times
  <2> QED
    BY <2>2, <2>3, <1>2 DEF Ring
<1> HIDE DEF new, times, later
<1>5. size \in Nat \ {0} /\ ring.cursor \in 0 .. size - 1 /\ next = Onward(ring.cursor, size)
  BY <1>1
<1> HIDE DEF size, next
<1>6. /\ next \in 0 .. size - 1
      /\ Round(next, size, size) = ring.cursor + 1
      /\ \A i \in 1 .. size - 1 :
           /\ Round(next, size, i) = Round(ring.cursor, size, i + 1)
           /\ Round(next, size, i) \in 1 .. size
           /\ Round(next, size, i) # ring.cursor + 1
  BY <1>5, RoundMovesOn, SMTT(30)
<1>7. \A i \in 1 .. size : Slot(new, i) = Round(next, size, i)
  <2>1. Len(new.data) = size /\ new.cursor = next /\ new.isFull /\ next \in Nat
    BY <1>2, <1>4, <1>6, <1>5
  <2> QED
    BY <2>1, <1>5 DEF Slot, Round
<1>8. ASSUME NEW i \in 1 .. size
      PROVE  later[i] = times[Round(next, size, i)]
  <2>1. CASE i = size
    BY <2>1, <1>2, <1>3, <1>6
  <2>2. CASE i # size
    <3>1. i \in 1 .. size - 1 /\ i + 1 \in 1 .. size
      BY <2>2, <1>1
    <3>2. later[i] = ring.data[Round(ring.cursor, size, i + 1)]
      BY <3>1, <1>1, <1>3
    <3> QED
      BY <3>1, <3>2, <1>2, <1>6
  <2> QED
    BY <2>1, <2>2
<1>9. Holds(new, later)
  BY <1>2, <1>3, <1>4, <1>7, <1>8 DEF Holds
<1>10. Phase(new)
  BY <1>1, <1>2, <1>4, <1>6 DEF Phase
<1> QED
  BY <1>3, <1>4, <1>9, <1>10 DEF RingOK, new, later

\* A time appended to the buffer is appended to the window.
LEMMA AppendOK ==
  ASSUME NEW ring, NEW window, RingOK(ring, window), NEW x \in Nat
  PROVE  RingOK(RingAppend(ring, x), Window(Append(window, x)))
<1>1. window \in Seq(Nat) /\ Len(Append(window, x)) = Len(window) + 1
      /\ Len(ring.data) = Len(window)
  BY DEF RingOK, Holds
<1>2. CASE ~ring.isFull
  <2>1. SizeIsInteger => Len(window) < BufferSize
    BY <1>1, <1>2 DEF RingOK, Phase
  <2>2. Window(Append(window, x)) = Append(window, x)
    BY <1>1, <2>1, BufferSizeInt DEF Window
  <2> QED
    BY <1>2, <2>2, AppendFilling
<1>3. CASE ring.isFull
  <2>1. SizeIsInteger /\ Len(window) = BufferSize
    BY <1>1, <1>3 DEF RingOK, Phase
  <2>2. Window(Append(window, x)) = SubSeq(Append(window, x), 2, BufferSize + 1)
    BY <1>1, <2>1, SMTT(30) DEF Window
  <2> QED
    BY <1>3, <2>2, AppendFull
<1> QED
  BY <1>2, <1>3

-------------------------------------------------------------------------------

Meter == [started : BOOLEAN, ring : Ring, sinceLast : Nat, halvesSinceRtc : Nat]

RetargetInv ==
  /\ meter \in [Conns -> Meter]
  /\ gaps \in [Conns -> Seq(Nat)]
  /\ \A c \in Conns : RingOK(meter[c].ring, gaps[c])

LEMMA NewMeterOK == NewMeter \in Meter /\ NewMeter.ring = EmptyRing
  BY EmptyRingOK DEF NewMeter, Meter, RingOK

LEMMA RetargetInvInit == RetargetInit => RetargetInv
  BY NewMeterOK, EmptyRingOK DEF RetargetInit, RetargetInv

\* What one share does to the meter and the window of its client.
LEMMA MeteredOK ==
  ASSUME NEW k \in Meter, NEW window, RingOK(k.ring, window), NEW difficulty
  PROVE  LET after == Metered(k, difficulty)
             times == IF Retarget(k, difficulty) # 0 \/ ~k.started THEN <<>>
                      ELSE Window(Append(window, k.sinceLast))
         IN  after \in Meter /\ RingOK(after.ring, times) /\ times \in Seq(Nat)
<1>1. RetargetTime \in Nat /\ k.sinceLast \in Nat
  BY VarDiffAssumption DEF VarDiffAssumption, Meter
<1>2. RingOK(Filled(k), Window(Append(window, k.sinceLast)))
  BY <1>1, AppendOK DEF Filled
<1>3. CASE ~k.started
  BY <1>1, <1>3, EmptyRingOK DEF Metered, Meter, RingOK
<1>4. CASE k.started
  <2> DEFINE again  == Retarget(k, difficulty) # 0
             ring   == IF again THEN EmptyRing ELSE Filled(k)
             halves == IF Due(k) THEN 0 ELSE k.halvesSinceRtc
             after  == [k EXCEPT !.ring = ring, !.sinceLast = 0, !.halvesSinceRtc = halves]
             times  == IF again THEN <<>> ELSE Window(Append(window, k.sinceLast))
  <2>1. Metered(k, difficulty) = after
    BY <1>4 DEF Metered
  <2>2. ring \in Ring /\ halves \in Nat /\ RingOK(ring, times) /\ times \in Seq(Nat)
    BY <1>2, EmptyRingOK DEF RingOK, Meter
  <2> HIDE DEF ring, halves, times
  <2>3. after \in Meter /\ after.ring = ring
    BY <2>2 DEF Meter
  <2> HIDE DEF after
  <2> QED
    BY <1>4, <2>1, <2>2, <2>3 DEF times
<1> QED
  BY <1>3, <1>4

LEMMA AgedOK ==
  ASSUME NEW k \in Meter
  PROVE  Aged(k) \in Meter /\ Aged(k).ring = k.ring
<1> DEFINE gap    == Capped(k.sinceLast + 1, MaxGap)
           halves == Capped(k.halvesSinceRtc + 2, 2 * RetargetTime)
<1>1. gap \in Nat /\ halves \in Nat
  BY VarDiffAssumption DEF VarDiffAssumption, Capped, Meter
<1>2. Aged(k) = IF ~k.started THEN k
                ELSE [k EXCEPT !.sinceLast = gap, !.halvesSinceRtc = halves]
  BY DEF Aged, Meter
<1> HIDE DEF gap, halves
<1> QED
  BY <1>1, <1>2 DEF Meter

LEMMA RetargetInvStep == RetargetInv /\ [RetargetNext]_retargetVars => RetargetInv'
<1> SUFFICES ASSUME RetargetInv, [RetargetNext]_retargetVars
             PROVE  RetargetInv'
  OBVIOUS
<1>1. ASSUME NEW c \in Conns, NEW addr \in Addrs, MeteredConnect(c, addr)
      PROVE  RetargetInv'
  BY <1>1, NewMeterOK, EmptyRingOK DEF MeteredConnect, RetargetInv
<1>2. ASSUME NEW c \in Conns, NEW shareValid \in BOOLEAN, MeteredSubmit(c, shareValid)
      PROVE  RetargetInv'
  <2> DEFINE after == Metered(meter[c], client[c].difficulty)
             times == IF Retarget(meter[c], client[c].difficulty) # 0 \/ ~meter[c].started
                      THEN <<>> ELSE Window(Append(gaps[c], meter[c].sinceLast))
  <2>1. meter' = [meter EXCEPT ![c] = after] /\ gaps' = [gaps EXCEPT ![c] = times]
    BY <1>2 DEF MeteredSubmit, RetargetInv
  <2>2. after \in Meter /\ RingOK(after.ring, times) /\ times \in Seq(Nat)
    BY MeteredOK DEF RetargetInv
  <2> HIDE DEF after, times
  <2> QED
    BY <2>1, <2>2 DEF RetargetInv
<1>3. CASE MeteredTick
  <2>1. \A c \in Conns : meter'[c] = Aged(meter[c]) /\ gaps'[c] = gaps[c]
    BY <1>3 DEF MeteredTick, RetargetInv
  <2>2. meter' \in [Conns -> Meter] /\ gaps' = gaps
    BY <1>3, AgedOK DEF MeteredTick, RetargetInv
  <2>3. \A c \in Conns : meter'[c].ring = meter[c].ring
    BY <2>1, AgedOK DEF RetargetInv
  <2> QED
    BY <2>2, <2>3 DEF RetargetInv
<1>4. CASE UNCHANGED <<meter, gaps>>
  BY <1>4 DEF RetargetInv
<1> QED
  BY <1>1, <1>2, <1>3, <1>4 DEF RetargetNext, retargetVars

(***************************************************************************)
(* Whenever a retarget takes the average, the buffer holds exactly the     *)
(* last BufferSize times since the last retarget or connection, for every  *)
(* size, also one that is no integer and lets the buffer grow without end  *)
(* until the next retarget (RingBuffer, varDiff.js:11-41).                 *)
(***************************************************************************)
THEOREM RingAlwaysWindow == RetargetSpec => []RingIsWindow
<1>1. RetargetInv => RingIsWindow
  <2> SUFFICES ASSUME RetargetInv, NEW c \in Conns
               PROVE  /\ RingSize(meter[c].ring) = Len(gaps[c])
                      /\ Holds(meter[c].ring, gaps[c])
    BY DEF RingIsWindow, Holds
  <2>1. RingOK(meter[c].ring, gaps[c])
    BY DEF RetargetInv
  <2> QED
    BY <2>1 DEF RingOK, Phase, Holds, RingSize
<1> QED
  BY <1>1, RetargetInvInit, RetargetInvStep, PTL DEF RetargetSpec

-------------------------------------------------------------------------------
(* With varDiff *)

\* Rounding a quotient to the nearest integer keeps the bounds it has.
LEMMA RoundedBetween ==
  ASSUME NEW a \in Nat, NEW b \in Nat \ {0}, NEW d \in Nat
  PROVE  /\ (2 * a + b) \div (2 * b) \in Nat
         /\ a <= d * b => (2 * a + b) \div (2 * b) <= d
         /\ d * b <= a => d <= (2 * a + b) \div (2 * b)
<1> DEFINE q == (2 * a + b) \div (2 * b)
           r == (2 * a + b) % (2 * b)
<1>1. /\ q \in Int /\ r \in 0 .. 2 * b - 1
      /\ 2 * a + b = (2 * b) * q + r
  OBVIOUS
<1> HIDE DEF q, r
<1>2. ASSUME NEW x \in Int, NEW y \in Int, x <= y
      PROVE  b * x <= b * y
  BY <1>2
<1>3. q \in Nat
  <2> SUFFICES ASSUME q <= -1 PROVE FALSE
    BY <1>1
  <2>1. b * q <= b * (-1)
    BY <1>1, <1>2
  <2>2. (2 * b) * q = 2 * (b * q) /\ b * q \in Int /\ b * (-1) = -b
    BY <1>1
  <2> QED
    BY <1>1, <2>1, <2>2
<1>4. ASSUME a <= d * b, d + 1 <= q PROVE FALSE
  <2>1. b * (d + 1) <= b * q
    BY <1>1, <1>2, <1>4
  <2>2. (2 * b) * q = 2 * (b * q) /\ b * q \in Int /\ b * (d + 1) = d * b + b /\ d * b \in Int
    BY <1>1
  <2> QED
    BY <1>1, <1>4, <2>1, <2>2
<1>5. ASSUME d * b <= a, q + 1 <= d PROVE FALSE
  <2>1. b * (q + 1) <= b * d
    BY <1>1, <1>2, <1>5
  <2>2. (2 * b) * q = 2 * (b * q) /\ b * q \in Int /\ b * (q + 1) = b * q + b /\ b * d = d * b
        /\ d * b \in Int
    BY <1>1
  <2> QED
    BY <1>1, <1>5, <2>1, <2>2
<1>6. a <= d * b => q <= d
  BY <1>1, <1>4
<1>7. d * b <= a => d <= q
  BY <1>1, <1>5
<1> QED
  BY <1>3, <1>6, <1>7 DEF q

LEMMA RingSumNat == ASSUME NEW ring, ring.data \in Seq(Nat) PROVE RingSum(ring) \in Nat
<1>1. RingSum(ring) = Total(ring.data)
  BY FoldIsSum, Zenon DEF RingSum, Total
<1> QED
  BY <1>1, TotalNat

\* Beyond the variance the average is beyond the target.
LEMMA AverageBeyond ==
  ASSUME NEW ring, RingSum(ring) \in Nat, RingSize(ring) \in Nat
  PROVE  /\ RingSize(ring) * TargetTime \in Nat
         /\ TooSlow(ring) => RingSize(ring) * TargetTime < RingSum(ring)
         /\ TooFast(ring) => RingSum(ring) < RingSize(ring) * TargetTime
<1> DEFINE b == RingSum(ring)
           g == RingSize(ring) * TargetTime
           v == g * VariancePercent
<1>1. g \in Nat /\ v \in Nat /\ b \in Nat /\ VariancePercent \in Nat
  BY VarDiffAssumption DEF VarDiffAssumption
<1>2. g * (100 + VariancePercent) = 100 * g + v /\ g * (100 - VariancePercent) = 100 * g - v
  BY <1>1
<1>3. TooSlow(ring) <=> 100 * b > g * (100 + VariancePercent)
  BY DEF TooSlow
<1>4. TooFast(ring) <=> 100 * b < g * (100 - VariancePercent)
  BY DEF TooFast
<1> HIDE DEF b, g, v
<1>5. (TooSlow(ring) => g < b) /\ (TooFast(ring) => b < g)
  BY <1>1, <1>2, <1>3, <1>4
<1> QED
  BY <1>1, <1>5 DEF b, g

\* Too slow a miner's difficulty is not raised, too fast a one's not lowered.
LEMMA ScaledTheRightWay ==
  ASSUME NEW ring, RingSum(ring) \in Nat, RingSize(ring) \in Nat, NEW difficulty \in Nat
  PROVE  /\ Scaled(ring, difficulty) \in Nat
         /\ TooSlow(ring) => Scaled(ring, difficulty) <= difficulty
         /\ TooFast(ring) => \/ difficulty <= Scaled(ring, difficulty)
                             \/ Scaled(ring, difficulty) = MaxDiff + 1
<1> DEFINE b == RingSum(ring)
           g == RingSize(ring) * TargetTime
           a == difficulty * TargetTime * RingSize(ring)
<1>1. g \in Nat /\ b \in Nat /\ MaxDiff \in Nat
      /\ (TooSlow(ring) => g < b) /\ (TooFast(ring) => b < g)
  BY AverageBeyond, VarDiffAssumption DEF VarDiffAssumption
<1>2. a = difficulty * g
  BY VarDiffAssumption DEF VarDiffAssumption
<1>3. Scaled(ring, difficulty) = IF b = 0 THEN MaxDiff + 1 ELSE (2 * a + b) \div (2 * b)
  BY DEF Scaled
<1> HIDE DEF b, g, a
<1>4. CASE b = 0
  BY <1>1, <1>3, <1>4
<1>5. CASE b # 0
  <2>1. \A x \in Nat, y \in Nat : x <= y => difficulty * x <= difficulty * y
    OBVIOUS
  <2>2. a \in Nat /\ difficulty * b \in Nat
    BY <1>1, <1>2
  <2>3. /\ (2 * a + b) \div (2 * b) \in Nat
        /\ a <= difficulty * b => (2 * a + b) \div (2 * b) <= difficulty
        /\ difficulty * b <= a => difficulty <= (2 * a + b) \div (2 * b)
    BY <1>1, <1>5, <2>2, RoundedBetween
  <2>4. (TooSlow(ring) => a <= difficulty * b) /\ (TooFast(ring) => difficulty * b <= a)
    BY <1>1, <1>2, <2>1
  <2> QED
    BY <1>3, <1>5, <2>3, <2>4
<1> QED
  BY <1>4, <1>5

\* A retarget stays between the limits and the difficulty there is.
LEMMA NewDifficultyBetween ==
  ASSUME NEW ring, RingSum(ring) \in Nat, RingSize(ring) \in Nat,
         NEW low \in Nat, NEW high \in Nat, NEW difficulty \in low .. high,
         low <= MinDiff, MaxDiff <= high
  PROVE  NewDifficulty(ring, difficulty) \in (low .. high) \cup {0}
<1> DEFINE new == NewDifficulty(ring, difficulty)
<1>1. /\ MinDiff \in Nat /\ MaxDiff \in Nat /\ MinDiff <= MaxDiff /\ X2Mode \in BOOLEAN
      /\ difficulty \in Nat
  BY VarDiffAssumption DEF VarDiffAssumption
<1>2. /\ Scaled(ring, difficulty) \in Nat
      /\ TooSlow(ring) => Scaled(ring, difficulty) <= difficulty
      /\ TooFast(ring) => \/ difficulty <= Scaled(ring, difficulty)
                          \/ Scaled(ring, difficulty) = MaxDiff + 1
  BY <1>1, ScaledTheRightWay
<1>3. CASE TooSlow(ring) /\ difficulty > MinDiff
  <2> DEFINE d == IF X2Mode THEN (difficulty + 1) \div 2 ELSE Scaled(ring, difficulty)
  <2>1. d \in Nat /\ d <= difficulty
    BY <1>1, <1>2, <1>3
  <2>2. new = IF d < MinDiff THEN MinDiff ELSE d
    BY <1>3 DEF NewDifficulty
  <2> HIDE DEF d, new
  <2>3. new \in low .. high
    BY <1>1, <1>3, <2>1, <2>2
  <2> QED
    BY <2>3 DEF new
<1>4. CASE ~(TooSlow(ring) /\ difficulty > MinDiff) /\ TooFast(ring)
  <2> DEFINE d == IF X2Mode THEN 2 * difficulty ELSE Scaled(ring, difficulty)
  <2>1. d \in Nat /\ (difficulty <= d \/ d = MaxDiff + 1)
    BY <1>1, <1>2, <1>4
  <2>2. new = IF d > MaxDiff THEN MaxDiff ELSE d
    BY <1>4 DEF NewDifficulty, Capped
  <2> HIDE DEF d, new
  <2>3. new \in low .. high
    BY <1>1, <2>1, <2>2
  <2> QED
    BY <2>3 DEF new
<1>5. CASE ~(TooSlow(ring) /\ difficulty > MinDiff) /\ ~TooFast(ring)
  BY <1>5 DEF NewDifficulty
<1> QED
  BY <1>3, <1>4, <1>5

\* What a share makes varDiff ask for is a difficulty the server knows.
LEMMA RetargetAllowed ==
  ASSUME NEW k \in Meter, NEW window, RingOK(k.ring, window),
         NEW difficulty \in Difficulties
  PROVE  Retarget(k, difficulty) \in VarDiffs \cup {0}
<1> DEFINE low  == IF PortDiff < MinDiff THEN PortDiff ELSE MinDiff
           high == IF PortDiff > MaxDiff THEN PortDiff ELSE MaxDiff
           ring == Filled(k)
<1>1. /\ PortDiff \in Nat /\ MinDiff \in Nat /\ MaxDiff \in Nat /\ MinDiff <= MaxDiff
  BY StratumAssumption, VarDiffAssumption DEF StratumAssumption, VarDiffAssumption
<1>2. VarDiffs = low .. high /\ PortDiff \in low .. high
  BY <1>1, RetargetAssumption DEF RetargetAssumption
<1>3. /\ low \in Nat /\ high \in Nat /\ low <= MinDiff /\ MaxDiff <= high
      /\ difficulty \in low .. high
  BY <1>1, <1>2 DEF Difficulties
<1>4. \E w : RingOK(ring, w)
  BY AppendOK DEF Filled, Meter
<1>5. RingSum(ring) \in Nat /\ RingSize(ring) \in Nat
  <2>1. ring.data \in Seq(Nat) /\ ring.cursor \in Nat
        /\ (ring.isFull => Len(ring.data) = BufferSize)
    BY <1>4 DEF RingOK, Ring, Phase
  <2>2. RingSize(ring) \in Nat
    BY <2>1 DEF RingSize
  <2> QED
    BY <2>1, <2>2, RingSumNat
<1> HIDE DEF low, high, ring
<1>6. NewDifficulty(ring, difficulty) \in (low .. high) \cup {0}
  BY <1>1, <1>3, <1>5, NewDifficultyBetween
<1> QED
  BY <1>2, <1>6 DEF Retarget, ring

MeteredInv == ServerInv /\ RetargetInv

LEMMA MeteredInvInit == RetargetInit => MeteredInv
  BY ServerInvInit, RetargetInvInit DEF RetargetInit, MeteredInv

\* A step with varDiff is a step of the server.
LEMMA StepAllowed ==
  ASSUME MeteredInv, [RetargetNext]_retargetVars
  PROVE  [ServerNext]_serverVars
<1>1. ASSUME NEW c \in Conns, NEW shareValid \in BOOLEAN, MeteredSubmit(c, shareValid)
      PROVE  ServerNext
  <2> DEFINE retarget == Retarget(meter[c], client[c].difficulty)
  <2>1. SubmitShare(c, shareValid, retarget)
    BY <1>1 DEF MeteredSubmit
  <2>2. client[c].difficulty \in Difficulties
    <3>1. Keeps(client[c])
      BY ClientKeeps DEF MeteredInv
    <3>2. Subscribed(client[c])
      BY <2>1 DEF SubmitShare, Ready
    <3> QED
      BY <3>1, <3>2 DEF Keeps, Client
  <2>3. meter[c] \in Meter /\ RingOK(meter[c].ring, gaps[c])
    BY DEF MeteredInv, RetargetInv
  <2>4. retarget \in VarDiffs \cup {0}
    BY <2>2, <2>3, RetargetAllowed
  <2> HIDE DEF retarget
  <2> QED
    BY <2>1, <2>4 DEF ServerNext
<1>2. ASSUME NEW c \in Conns, NEW addr \in Addrs, MeteredConnect(c, addr)
      PROVE  ServerNext
  BY <1>2 DEF MeteredConnect, ServerNext
<1>3. CASE MeteredTick
  BY <1>3 DEF MeteredTick, ServerNext
<1>4. CASE ClientStep \/ LoopStep
  BY <1>4 DEF ServerNext
<1>5. CASE UNCHANGED retargetVars
  BY <1>5 DEF retargetVars
<1> QED
  BY <1>1, <1>2, <1>3, <1>4, <1>5 DEF RetargetNext

LEMMA MeteredInvStep == MeteredInv /\ [RetargetNext]_retargetVars => MeteredInv'
<1> SUFFICES ASSUME MeteredInv, [RetargetNext]_retargetVars
             PROVE  MeteredInv'
  OBVIOUS
<1>1. ServerInv'
  BY StepAllowed, ServerInvStep DEF MeteredInv
<1>2. RetargetInv'
  BY RetargetInvStep DEF MeteredInv
<1> QED
  BY <1>1, <1>2 DEF MeteredInv

(***************************************************************************)
(* The server with varDiff (setVarDiff of pool.js) implements the server   *)
(* without: whatever the times between shares, a retarget asks for nothing *)
(* beyond the limits and the port's difficulty, and in none of its steps   *)
(* does varDiff touch what the server keeps.                               *)
(***************************************************************************)
THEOREM VarDiffKeepsToServer == RetargetSpec => ServerImplemented
<1>1. RetargetInit => ServerInit
  BY DEF RetargetInit
<1>2. MeteredInv /\ [RetargetNext]_retargetVars => [ServerNext]_serverVars
  BY StepAllowed
<1> QED
  BY <1>1, <1>2, MeteredInvInit, MeteredInvStep, PTL
     DEF RetargetSpec, ServerImplemented, ServerSpec

\* So that honest shares count however varDiff changes the difficulty.
THEOREM RetargetedSharesCount == RetargetSpec => []HonestShareCounts
  BY VarDiffKeepsToServer, HonestSharesAlwaysCount, PTL DEF ServerImplemented
===============================================================================
