----------------------------- MODULE VariantLocks -----------------------------
(***************************************************************************)
(* What the checkouts expect of the locks "lock:tenant:T:variant:V" kept   *)
(* in Redis: a lease table.  A free variant may be granted to one client,  *)
(* a granted one becomes free again (its holder gave it back, or its TTL   *)
(* of ten seconds ran out), and it never passes from one holder straight   *)
(* to another.  Clients never wait: a refused client is told so and leaves *)
(* (blocking=False), so refusal is not a step of this specification.       *)
(***************************************************************************)
CONSTANTS Variants,   \* the lockable rows of product_variants
          Clients,    \* the checkout requests
          Nobody      \* the value of a key that does not exist; not a client

VARIABLE lockOwner

LocksInit == lockOwner = [v \in Variants |-> Nobody]

Grant(v, c) ==
  /\ lockOwner[v] = Nobody
  /\ lockOwner' = [lockOwner EXCEPT ![v] = c]

Free(v) ==
  /\ lockOwner[v] # Nobody
  /\ lockOwner' = [lockOwner EXCEPT ![v] = Nobody]

LocksNext == \E v \in Variants : Free(v) \/ \E c \in Clients : Grant(v, c)

LocksSafety == LocksInit /\ [][LocksNext]_lockOwner

LocksSpec == LocksSafety /\ \A v \in Variants : WF_lockOwner(Free(v))
===============================================================================
