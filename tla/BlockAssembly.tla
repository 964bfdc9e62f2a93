----------------------------- MODULE BlockAssembly -----------------------------
(***************************************************************************)
(* From a block template to a block: the constructor of BlockTemplate      *)
(* (engine/lib/blockTemplate.js) builds the steps of the Merkle tree       *)
(* (merkleTree.js) and the coinbase (transactions.js), processShare joins  *)
(* them with a miner's extranonce.  One action per pass of a loop.         *)
(*                                                                         *)
(* The header's other fields, which are copied, and what only other coins  *)
(* have (time stamps, comments, votes, proof of stake) are left out.       *)
(* A hash is the tuple of what is hashed, a leaf a tuple of its own.       *)
(***************************************************************************)
EXTENDS Coinbase, Serialization, AddressScript

CONSTANTS
  Templates,     \* getblocktemplate answers
  PoolAddresses, \* options.address
  NonceSizes     \* sizes in bytes an extranonce2 can arrive with

ASSUME TemplatesAssumption ==
  \A t \in Templates :
    /\ t.coinbasevalue \in Nat /\ t.height \in Nat \ {0}
    /\ t.payments \in Seq(Nat) /\ t.payee \in BOOLEAN /\ t.payee_amount \in Nat
    /\ t.commitment \in BOOLEAN /\ t.transactions \in Seq(Seq(Nat))

\* Counts have at most two bytes after the 0xfd of varIntBuffer, and heights are
\* within what serializeNumber can shift.
ASSUME SizesAssumption ==
  /\ RewardRecipients \in Seq(Nat)
  /\ \A t \in Templates :
       /\ Len(t.transactions) < 65535
       /\ Len(t.payments) + Len(RewardRecipients) < 65532
       /\ t.height <= MaxNumber

\* The symbols of an address have 5 bits: addressToScript decodes them from text.
ASSUME AddressAssumption ==
  \A a \in PoolAddresses :
    a.kind = "bech32" => a.data \in Seq(0 .. 31) /\ Len(a.data) >= 1

SumOf(s) == FoldSeq(+, 0, s)

\* The coinbase value has room for what the node asks to pay, and the pool's
\* recipients are not promised more than there is.
ASSUME AffordableAssumption ==
  /\ SumOf(RewardRecipients) <= 100
  /\ \A t \in Templates :
       SumOf(t.payments) + (IF t.payee THEN t.payee_amount ELSE 0) <= t.coinbasevalue

VARIABLES
  rpc,       \* rpcData
  address,   \* the pool's address
  step,      \* where the constructor is
  level,     \* calculateSteps: L, whose first element is null
  branch,    \* the steps of the tree
  todo,      \* payments, then percentages, the loop has still to do
  reward,    \* of generateOutputTransactions
  left,      \* rewardToPool
  outputs,   \* the amounts in txOutputBuffers
  paid,      \* their sum so far (history)
  block      \* what is submitted

assemblyVars == <<rpc, address, step, level, branch, todo, reward, left, outputs, paid, block>>

NoBlock  == <<>>
Null     == <<>>       \* in the place of the coinbase's hash
CoinbaseHash == <<0>>  \* of the coinbase with the miner's extranonces

ExtraNonce1Size  == 4
PlaceholderSize  == 8
ExtraNonce2Size  == PlaceholderSize - ExtraNonce1Size

-------------------------------------------------------------------------------
(* The Merkle tree *)

MerkleJoin(a, b) == <<a, b>>

\* A slip: the odd one out is not doubled.
UndoubledLevel(l) ==
  <<Null>> \o [j \in 1 .. (Len(l) \div 2 - 1) |-> MerkleJoin(l[2 * j + 1], l[2 * j + 2])]

\* The level above l: its first pair holds the coinbase and stays open, the
\* last element is doubled if it is single.
NextLevel(l) ==
  LET even == IF Len(l) % 2 = 1 THEN Append(l, Last(l)) ELSE l
  IN  <<Null>> \o [j \in 1 .. (Len(l) - 1) \div 2 |->
                     MerkleJoin(even[2 * j + 1], even[2 * j + 2])]

MerkleStep ==
  /\ step = "tree" /\ Len(level) > 1
  /\ branch' = Append(branch, level[2])
  /\ level' = NextLevel(level)
  /\ UNCHANGED <<rpc, address, step, todo, reward, left, outputs, paid, block>>

WithFirst(first, steps) == FoldLeft(MerkleJoin, first, steps)

-------------------------------------------------------------------------------
(* The coinbase's outputs *)

\* CreateGeneration: masternode or superblock payments come first.
StartOutputs ==
  /\ step = "tree" /\ Len(level) <= 1
  /\ step' = "payments" /\ todo' = rpc.payments
  /\ UNCHANGED <<rpc, address, level, branch, reward, left, outputs, paid, block>>

Push(amount) == outputs' = Append(outputs, amount) /\ paid' = paid + amount

\* A slip: what a payee gets is not taken off the pool's part.
PayPayeeFromReward(amount) ==
  /\ Push(amount)
  /\ reward' = reward - amount /\ left' = left

PayFixed(amount) ==
  /\ Push(amount)
  /\ reward' = reward - amount /\ left' = left - amount

PayPayment ==
  /\ step = "payments" /\ todo # <<>>
  /\ PayFixed(Head(todo))
  /\ todo' = Tail(todo)
  /\ UNCHANGED <<rpc, address, step, level, branch, block>>

\* payee_amount, or a fifth, rounded up.
PayeeReward == IF rpc.payee_amount = 0 THEN (reward + 4) \div 5 ELSE rpc.payee_amount

PayPayee ==
  /\ step = "payments" /\ todo = <<>>
  /\ IF rpc.payee THEN PayFixed(PayeeReward) ELSE UNCHANGED <<outputs, paid, reward, left>>
  /\ step' = "recipients" /\ todo' = RewardRecipients
  /\ UNCHANGED <<rpc, address, level, branch, block>>

\* The percentages are of the reward that the payees have left.
PayRecipient ==
  /\ step = "recipients" /\ todo # <<>>
  /\ LET amount == RecipientReward(Head(todo), reward)
     IN  Push(amount) /\ left' = left - amount
  /\ todo' = Tail(todo)
  /\ UNCHANGED <<rpc, address, step, level, branch, reward, block>>

\* A slip: the commitment is put where the pool's output should be.
CommitmentForPool == IF rpc.commitment THEN <<0>> ELSE <<left>>

\* The rest is the pool's, in front; the witness commitment, of no value, in
\* front of that.
FrontOutputs == (IF rpc.commitment THEN <<0>> ELSE <<>>) \o <<left>>

PayPool ==
  /\ step = "recipients" /\ todo = <<>>
  /\ outputs' = FrontOutputs \o outputs
  /\ paid' = paid + left
  /\ step' = "ready"
  /\ UNCHANGED <<rpc, address, level, branch, todo, reward, left, block>>

-------------------------------------------------------------------------------
(* The block *)

\* scriptSigPart1 with the height, the time (4 bytes) and the placeholder's
\* length; scriptSigPart2 with '/nodeStratum/'.
ScriptSigPart1 == SerializeNumber(rpc.height) \o [i \in 1 .. 6 |-> 0]
ScriptSigPart2 == [i \in 1 .. 14 |-> 0]
ScriptLength   == Len(ScriptSigPart1) + PlaceholderSize + Len(ScriptSigPart2)

\* A slip: the length of the extranonce is not looked at.
AnySize(size) == TRUE

\* processShare refuses an extranonce2 of another size.
RightSize(size) == size = ExtraNonce2Size

\* A share solves the block: serializeCoinbase, serializeHeader, serializeBlock.
AssembleBlock(size) ==
  /\ step = "ready" /\ RightSize(size)
  /\ block' =
       [root         |-> WithFirst(CoinbaseHash, branch),
        count        |-> VarIntBuffer(Len(rpc.transactions) + 1),
        scriptLength |-> VarIntBuffer(ScriptLength),
        script       |-> ScriptSigPart1 \o [i \in 1 .. ExtraNonce1Size + size |-> 0]
                         \o ScriptSigPart2,
        poolScript   |-> AddressToScript(address),
        outputCount  |-> VarIntBuffer(Len(outputs)),
        amounts      |-> [i \in DOMAIN outputs |-> PackInt64LE(outputs[i])]]
  /\ step' = "block"
  /\ UNCHANGED <<rpc, address, level, branch, todo, reward, left, outputs, paid>>

-------------------------------------------------------------------------------
AssemblyInit ==
  /\ rpc \in Templates
  /\ address \in PoolAddresses /\ AddressToScript(address) # Invalid
  /\ step = "tree" /\ level = <<Null>> \o rpc.transactions /\ branch = <<>>
  /\ todo = <<>> /\ reward = rpc.coinbasevalue /\ left = rpc.coinbasevalue
  /\ outputs = <<>> /\ paid = 0 /\ block = NoBlock

AssemblyNext ==
  \/ MerkleStep \/ StartOutputs \/ PayPayment \/ PayPayee \/ PayRecipient \/ PayPool
  \/ \E size \in NonceSizes : AssembleBlock(size)

AssemblySpec == AssemblyInit /\ [][AssemblyNext]_assemblyVars

-------------------------------------------------------------------------------
\* The types of the variables; paid is what it says.
AssemblyTypeOK ==
  /\ rpc \in Templates /\ address \in PoolAddresses
  /\ step \in {"tree", "payments", "recipients", "ready", "block"}
  /\ todo \in Seq(Nat) /\ {reward, left, paid} \subseteq Int
  /\ outputs \in Seq(Int) /\ paid = SumOf(outputs)
  /\ block # NoBlock <=> step = "block"

\* No satoshi of the coinbase value is left over or made up.
SpendsItAll == step \in {"ready", "block"} => paid = rpc.coinbasevalue

(***************************************************************************)
(* The outputs of the coinbase are worth exactly the coinbase value,       *)
(* whatever the flooring and rounding of the recipients' and the payee's   *)
(* parts, and the pool's part is what the payout ledger reckons with.      *)
(***************************************************************************)
OutputsAddUp ==
  /\ SpendsItAll
  /\ step \in {"ready", "block"} => left = RewardToPool(reward) /\ left \in Nat

\* The tree as a node computes it: the nodes of a level are joined in pairs, the
\* last one with itself if it is single, up to the first level that has one node.
Parents(nodes) ==
  LET n == Len(nodes)
  IN  [i \in 1 .. (n + 1) \div 2 |->
         MerkleJoin(nodes[2 * i - 1], nodes[IF 2 * i <= n THEN 2 * i ELSE 2 * i - 1])]

Tree(leaves) ==
  LET nodes[k \in 0 .. Len(leaves)] == IF k = 0 THEN leaves ELSE Parents(nodes[k - 1])
  IN  nodes

IsTop(tree, k) == Len(tree[k]) = 1 /\ \A j \in 0 .. k - 1 : Len(tree[j]) > 1

MerkleRoot(leaves) ==
  LET tree == Tree(leaves)
  IN  tree[CHOOSE k \in 0 .. Len(leaves) : IsTop(tree, k)][1]

(***************************************************************************)
(* The root in the header, computed from the steps sent to the miners, is  *)
(* the one a node computes over the block's transactions, for every number *)
(* of them.                                                                *)
(***************************************************************************)
RootAgrees ==
  step = "block" => block.root = MerkleRoot(<<CoinbaseHash>> \o rpc.transactions)

(***************************************************************************)
(* A node that reads the block finds as many transactions and outputs as   *)
(* were announced, and a script of the length that was written before the  *)
(* extranonces were known, whatever a miner sends for one.                 *)
(***************************************************************************)
LengthsRead ==
  step = "block" =>
    /\ ReadVarInt(block.count) = Len(rpc.transactions) + 1
    /\ ReadVarInt(block.scriptLength) = Len(block.script)
    /\ ReadVarInt(block.outputCount) = Len(block.amounts)

(***************************************************************************)
(* The node finds the height at the script's start (BIP 34), for every     *)
(* length a height can have, and outputs that are worth what the template  *)
(* allows.                                                                 *)
(***************************************************************************)
NodeReadsBlock ==
  step = "block" =>
    /\ IsPrefix(MinimalPush(rpc.height), block.script)
    /\ SumOf([i \in DOMAIN block.amounts |-> ReadInt64LE(block.amounts[i])]) = rpc.coinbasevalue

(***************************************************************************)
(* The pool is paid to its own address: encoding the program in the script *)
(* gives the address back, symbol by symbol, so that one that does not     *)
(* hold whole bytes is refused; base58 is the hash in the address.         *)
(***************************************************************************)
PoolPaidToAddress == step = "block" => PaysTo(block.poolScript, address)
===============================================================================
