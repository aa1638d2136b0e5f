----------------------------- MODULE PoolShares -----------------------------
(* The shares of PoolMiner as a ShareLifecycle.                            *)
EXTENDS PoolMiner

\* The requests without an answer: those that are recorded, and the one its
\* worker is about to record.  A killed process waits for none.
Pending ==
  IF mpc = "killed" THEN {}
  ELSE DOMAIN pending_submits
         \cup {wl[w].req : w \in {v \in Workers : wpc[v] = "record"}}

\* A share is named by its first request.
used == {wire[i].of : i \in DOMAIN wire}

Attempts(s) == {i \in DOMAIN wire : wire[i].of = s}

out == [s \in {wire[i].of : i \in Pending} |-> Cardinality(Attempts(s))]

Lifecycle == INSTANCE ShareLifecycle
  WITH Shares <- Nat, used <- used, out <- out, accepted <- share_accepts,
       rejected <- share_rejects, discarded <- share_discarded

\* Whatever the order in which workers send, the pool answers and the
\* connection is replaced, a share lives as ShareLifecycle says: no answer
\* is counted without a share it settles, none is counted twice, and none
\* of an old connection settles a share of the new one (lines 1058-1098,
\* 1201-1281).
SharesFollowLifecycle == Lifecycle!Spec

=============================================================================
