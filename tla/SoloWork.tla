------------------------------ MODULE SoloWork ------------------------------
(***************************************************************************)
(* What a worker of solo mode hashes and submits (the helpers from         *)
(* fetch_block_template to build_block_hex in src/src/solo_miner.cpp): the *)
(* coinbase, the Merkle root, the header and the block.                    *)
(*                                                                         *)
(* A digest is [of, reversed]: what was hashed, and whether its 32 bytes   *)
(* are in the order of the hash or in the other one.  A serialization is a *)
(* record of its parts.  External: the template, whose ids are displayed   *)
(* in the reversed order, and the node's rule for the Merkle root.         *)
(***************************************************************************)
EXTENDS Integers, SequencesExt

CONSTANTS
  Workers,        \* the workers, numbered from 0: their ex2_prefix
  Results,        \* what getblocktemplate may answer
  payout_script,
  Ex2Space,       \* 2^32: values of base_ex2
  MaxTime         \* bound of the clock

VARIABLES
  local_template, \* per worker
  base_ex2, current_work,
  wpc,            \* "template", "build", "scan" or "dead"
  clock,
  submitted       \* history: the blocks submitted

vars == <<local_template, base_ex2, current_work, wpc, clock, submitted>>

-----------------------------------------------------------------------------
sha256d(data) == [of |-> data, reversed |-> FALSE]
reverse_bytes_32(digest) == [digest EXCEPT !.reversed = ~@]
parse_hex_bytes32_reversed(hex) == reverse_bytes_32(hex)

NoDigest == sha256d("nothing")

\* The transactions of the block but the first, as the template has them.
parse_template_tx(tx) ==
  [data |-> tx.data, txid_le |-> parse_hex_bytes32_reversed(tx.txid),
   wtxid_le |-> parse_hex_bytes32_reversed(IF "hash" \in DOMAIN tx THEN tx.hash ELSE tx.txid)]

fetch_block_template(result) ==
  [version |-> result.version, bits_le |-> result.bits, height |-> result.height,
   prevhash_le |-> parse_hex_bytes32_reversed(result.previousblockhash),
   curtime |-> result.curtime,
   mintime |-> IF "mintime" \in DOMAIN result THEN result.mintime ELSE result.curtime,
   coinbase_value |-> result.coinbasevalue, coinbaseaux |-> result.coinbaseaux,
   segwit |-> "segwit" \in result.rules,
   txs |-> [k \in DOMAIN result.transactions |-> parse_template_tx(result.transactions[k])]]

\* A node of the tree, whose digest is turned round or not.
Node(pair, turned) == IF turned THEN reverse_bytes_32(sha256d(pair)) ELSE sha256d(pair)

\* A level from the one below: pairs, the last hash with itself.
Level(hashes, turned) ==
  [k \in 1 .. (Len(hashes) + 1) \div 2 |->
     Node(<<hashes[2 * k - 1], hashes[IF 2 * k > Len(hashes) THEN 2 * k - 1 ELSE 2 * k]>>, turned)]

RECURSIVE Root(_, _)
Root(hashes, turned) == IF Len(hashes) = 1 THEN hashes[1] ELSE Root(Level(hashes, turned), turned)

\* Every digest of the tree is reversed.
compute_merkle_root_le(hashes) == IF hashes = <<>> THEN NoDigest ELSE Root(hashes, TRUE)

-----------------------------------------------------------------------------
(* The coinbase.                                                           *)

\* Bytes of a height, least significant first, with a sign byte if needed.
encode_script_num(height) ==
  LET len == CHOOSE n \in 1..4 : height < 256 ^ n /\ (n = 1 \/ height >= 256 ^ (n - 1))
      bytes == [k \in 1..len |-> (height \div 256 ^ (k - 1)) % 256]
  IN  IF bytes[len] >= 128 THEN Append(bytes, 0) ELSE bytes

\* What append_pushdata appends for so many bytes.
PushSize(n) == n + (IF n < 76 THEN 1 ELSE IF n < 256 THEN 2 ELSE IF n < 65536 THEN 3 ELSE 5)

encode_extra_nonce_bytes(gpu_prefix, ex2) == <<gpu_prefix, ex2>>
ExtraNonceSize == 8

ScriptSigSize(tpl) ==
  FoldLeft(LAMBDA size, aux : size + PushSize(aux), 0, tpl.coinbaseaux)
    + PushSize(Len(encode_script_num(tpl.height))) + PushSize(ExtraNonceSize)

\* The hash over the witness root and the reserved value, all zeros; the
\* coinbase itself counts as zeros.
WitnessCommitment(tpl) ==
  sha256d(<<compute_merkle_root_le(<<NoDigest>> \o [k \in DOMAIN tpl.txs |-> tpl.txs[k].wtxid_le]),
            NoDigest>>)

Coinbase(tpl, gpu_prefix, ex2, witness) ==
  [script_sig |-> <<encode_script_num(tpl.height), tpl.coinbaseaux,
                    encode_extra_nonce_bytes(gpu_prefix, ex2)>>,
   outputs |-> <<[value |-> tpl.coinbase_value, script |-> payout_script]>>
                 \o (IF tpl.segwit THEN <<[value |-> 0, script |-> WitnessCommitment(tpl)]>> ELSE <<>>),
   witness |-> witness]

MaxOf(a, b) == IF a > b THEN a ELSE b

\* The coinbase twice, the root and the time, or failure.
build_coinbase_for_template(tpl, gpu_prefix, ex2) ==
  LET no_witness == Coinbase(tpl, gpu_prefix, ex2, FALSE)
      coinbase_txid_le == reverse_bytes_32(sha256d(no_witness))
  IN  [ok |-> ScriptSigSize(tpl) <= 100,
       coinbase_full |-> Coinbase(tpl, gpu_prefix, ex2, tpl.segwit),
       merkle_root_le |-> compute_merkle_root_le(
         <<coinbase_txid_le>> \o [k \in DOMAIN tpl.txs |-> tpl.txs[k].txid_le]),
       ntime |-> MaxOf(MaxOf(tpl.mintime, tpl.curtime), clock)]

\* The root is copied as it is.
build_work_header(tpl, gpu_prefix, ex2) ==
  LET coinbase == build_coinbase_for_template(tpl, gpu_prefix, ex2)
  IN  [ok |-> coinbase.ok, coinbase_full |-> coinbase.coinbase_full,
       header |-> [version |-> tpl.version, prevhash |-> tpl.prevhash_le,
                   merkle_root |-> coinbase.merkle_root_le, ntime |-> coinbase.ntime,
                   bits |-> tpl.bits_le]]

build_block_hex(tpl, coinbase_full, header) ==
  [header |-> header, coinbase |-> coinbase_full, txs |-> [k \in DOMAIN tpl.txs |-> tpl.txs[k].data]]

-----------------------------------------------------------------------------
NoTemplate == [txs |-> <<>>]

Init ==
  /\ local_template = [w \in Workers |-> NoTemplate]
  /\ base_ex2 = [w \in Workers |-> 0] /\ current_work = [w \in Workers |-> [ok |-> FALSE]]
  /\ wpc = [w \in Workers |-> "template"]
  /\ clock = 0 /\ submitted = {}

Tick == clock < MaxTime /\ clock' = clock + 1
        /\ UNCHANGED <<local_template, base_ex2, current_work, wpc, submitted>>

\* A template with another identity restarts the partition and base_ex2.
TakeTemplate(w) ==
  /\ wpc[w] \in {"template", "scan"}
  /\ \E result \in Results :
       /\ fetch_block_template(result) # local_template[w]
       /\ local_template' = [local_template EXCEPT ![w] = fetch_block_template(result)]
  /\ base_ex2' = [base_ex2 EXCEPT ![w] = 0]
  /\ wpc' = [wpc EXCEPT ![w] = "build"]
  /\ UNCHANGED <<current_work, clock, submitted>>

\* The worker ends when there is no header.
BuildWork(w) ==
  /\ wpc[w] = "build"
  /\ current_work' = [current_work EXCEPT ![w] = build_work_header(local_template[w], w, base_ex2[w])]
  /\ wpc' = [wpc EXCEPT ![w] = IF current_work'[w].ok THEN "scan" ELSE "dead"]
  /\ UNCHANGED <<local_template, base_ex2, clock, submitted>>

PartitionDone(w) ==
  /\ wpc[w] = "scan"
  /\ base_ex2' = [base_ex2 EXCEPT ![w] = (@ + 1) % Ex2Space]
  /\ wpc' = [wpc EXCEPT ![w] = "build"]
  /\ UNCHANGED <<local_template, current_work, clock, submitted>>

\* A nonce was found and the work is not stale.
SubmitBlock(w) ==
  /\ wpc[w] = "scan"
  /\ submitted' = submitted \cup
       {build_block_hex(local_template[w], current_work[w].coinbase_full, current_work[w].header)}
  /\ UNCHANGED <<local_template, base_ex2, current_work, wpc, clock>>

Next ==
  \/ Tick
  \/ \E w \in Workers : TakeTemplate(w) \/ BuildWork(w) \/ PartitionDone(w) \/ SubmitBlock(w)

Spec == Init /\ [][Next]_vars

-----------------------------------------------------------------------------
(* The node's rule: the root of the transaction ids, in the order of the   *)
(* hash all the way.                                                       *)

Txid(tx) == sha256d(IF "witness" \in DOMAIN tx THEN [tx EXCEPT !.witness = FALSE] ELSE tx)

BlockRoot(block) ==
  Root(<<Txid(block.coinbase)>> \o [k \in DOMAIN block.txs |-> Txid(block.txs[k])],
       FALSE)

\* "Solo mode mines against your own Bitcoin Core node and submits full
\* blocks directly" (src/README.md:221): the header of a block that is
\* submitted commits to the block's transactions.
HeaderCommitsToBlock == \A block \in submitted : block.header.merkle_root = BlockRoot(block)

=============================================================================
