--------------------------- MODULE ShareLifecycle ---------------------------
(***************************************************************************)
(* What pool mode promises of a share it found (src/src/pool_miner.cpp):   *)
(* it is sent, and sent once more at most, before any share was accepted,  *)
(* after an answer that refused it; every answer to a share settles one    *)
(* attempt and is counted once; a reconnect forgets what is out.           *)
(***************************************************************************)
EXTENDS Integers

CONSTANT Shares   \* the shares there are to find

VARIABLES
  used,       \* the shares that were sent
  out,        \* the shares without an answer, and their attempts so far
  accepted, rejected, discarded

lifecycleVars == <<used, out, accepted, rejected, discarded>>

Init ==
  /\ used = {} /\ out = [s \in {} |-> 0]
  /\ accepted = 0 /\ rejected = 0 /\ discarded = 0

Settled(s) == out' = [r \in DOMAIN out \ {s} |-> out[r]]

CountsRefusal ==
  \/ rejected' = rejected + 1 /\ UNCHANGED discarded
  \/ discarded' = discarded + 1 /\ UNCHANGED rejected

Send ==
  \E s \in (used' \ used) \cap Shares :
    /\ used' = used \cup {s}
    /\ out' = [r \in DOMAIN out \cup {s} |-> IF r = s THEN 1 ELSE out[r]]
    /\ UNCHANGED <<accepted, rejected, discarded>>

Accept ==
  \E s \in DOMAIN out :
    /\ Settled(s)
    /\ accepted' = accepted + 1
    /\ UNCHANGED <<used, rejected, discarded>>

Refuse ==
  \E s \in DOMAIN out :
    /\ Settled(s)
    /\ CountsRefusal
    /\ UNCHANGED <<used, accepted>>

Retry ==
  \E s \in DOMAIN out :
    /\ out[s] = 1 /\ accepted = 0
    /\ out' = [out EXCEPT ![s] = 2]
    /\ CountsRefusal
    /\ UNCHANGED <<used, accepted>>

\* A share that is not worth sending.
Discard ==
  /\ discarded' = discarded + 1
  /\ UNCHANGED <<used, out, accepted, rejected>>

Forget ==
  /\ out' = [s \in {} |-> 0]
  /\ UNCHANGED <<used, accepted, rejected, discarded>>

Next == Send \/ Accept \/ Refuse \/ Retry \/ Discard \/ Forget

Spec == Init /\ [][Next]_lifecycleVars

=============================================================================
