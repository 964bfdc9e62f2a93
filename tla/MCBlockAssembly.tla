---------------------------- MODULE MCBlockAssembly ----------------------------
(***************************************************************************)
(* A small instance of BlockAssembly.  Three families of templates: every  *)
(* shape of the Merkle tree, every kind of payment, every boundary of the  *)
(* height; and an address of each kind, one of them with loose bits.       *)
(***************************************************************************)
EXTENDS BlockAssembly

Template(txs, value, height, payments, payee, amount, commitment) ==
  [transactions |-> [i \in 1 .. txs |-> <<i>>], coinbasevalue |-> value, height |-> height,
   payments |-> payments, payee |-> payee, payee_amount |-> amount, commitment |-> commitment]

MCTemplates ==
  {Template(txs, 100, 200, <<>>, FALSE, 0, TRUE) : txs \in 0 .. 20 \cup 251 .. 253}
  \cup {Template(1, value, 200, payments, payee, amount, commitment) :
          value \in {0, 1, 49, 99, 100, 101}, payments \in {<<>>, <<0>>, <<7, 20>>},
          payee \in BOOLEAN, amount \in {0, 11}, commitment \in BOOLEAN}
  \cup {Template(2, 50, height, <<>>, FALSE, 0, TRUE) :
          height \in {1, 16, 17, 127, 128, 255, 256, 32767, 32768, 65535, 65536, 8388607, 8388608,
                     MaxNumber}}

\* What the payments ask for is there (AffordableAssumption).
MCAffordable ==
  {t \in MCTemplates :
     SumOf(t.payments) + (IF t.payee THEN t.payee_amount ELSE 0) <= t.coinbasevalue}

Bytes(n) == [i \in 1 .. n |-> (37 * i + 11) % 256]

Segwit(version, program) == [kind |-> "bech32", data |-> SegwitSymbols(version, program)]

\* The last four must be refused.
MCAddresses ==
  {Segwit(0, Bytes(20)), Segwit(0, Bytes(32)), Segwit(1, Bytes(32)), Segwit(16, Bytes(2)),
   [kind |-> "base58", data |-> Bytes(25)],
   [kind |-> "base58", data |-> Bytes(24)],
   [Segwit(1, Bytes(32)) EXCEPT !.data[53] = @ + 1],
   Segwit(0, Bytes(19)),
   [Segwit(1, Bytes(5)) EXCEPT !.data = Append(@, 0)]}

MCRecipients == <<1, 2, 33>>
===============================================================================
