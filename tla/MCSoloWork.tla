----------------------------- MODULE MCSoloWork -----------------------------
(* SoloWork with templates of no, one and two transactions.                *)
EXTENDS SoloWork

Transaction(name) ==
  LET data == [name |-> name]
      id == [of |-> data, reversed |-> TRUE]
  IN  [data |-> data, txid |-> id, hash |-> id]

Template(txs, rules, aux) ==
  [version |-> 4, bits |-> 1, height |-> 840000, previousblockhash |-> [of |-> "tip", reversed |-> TRUE],
   curtime |-> 1, coinbasevalue |-> 50, coinbaseaux |-> aux, rules |-> rules,
   transactions |-> [k \in DOMAIN txs |-> Transaction(txs[k])]]

MCResults ==
  {Template(<<>>, {}, <<>>), Template(<<"t">>, {"segwit"}, <<6>>),
   Template(<<"t", "u">>, {"segwit"}, <<>>), Template(<<>>, {"segwit"}, <<90>>)}

=============================================================================
