---------------------------- MODULE ElementPool -----------------------------
(***************************************************************************)
(* What the memory pool promises its callers, whatever the chunks, queues, *)
(* links and mutexes behind it: pieces of memory that change hands one at  *)
(* a time.  An element enters the pool only if it overlaps none that is in *)
(* use, a caller takes an element out of the pool and is then its only     *)
(* owner, and gives it back once.                                          *)
(***************************************************************************)
CONSTANTS
  Client,        \* the callers
  Element,       \* the elements that can ever exist
  Region(_)      \* the memory of an element

VARIABLES
  pooled,  \* the elements that can be taken
  owned    \* the elements of each caller

abstractVars == <<pooled, owned>>

InUse == pooled \cup UNION {owned[t] : t \in Client}

AbstractInit ==
  /\ pooled = {}
  /\ owned = [t \in Client |-> {}]

\* Fresh memory becomes available.
Supply(e) ==
  /\ \A i \in InUse : Region(i) \cap Region(e) = {}
  /\ pooled' = pooled \cup {e}
  /\ UNCHANGED owned

Take(t, e) ==
  /\ e \in pooled
  /\ pooled' = pooled \ {e}
  /\ owned' = [owned EXCEPT ![t] = @ \cup {e}]

Give(t, e) ==
  /\ e \in owned[t]
  /\ owned' = [owned EXCEPT ![t] = @ \ {e}]
  /\ pooled' = pooled \cup {e}

AbstractNext ==
  \E e \in Element :
    \/ Supply(e)
    \/ \E t \in Client : Take(t, e) \/ Give(t, e)

AbstractSpec == AbstractInit /\ [][AbstractNext]_abstractVars
=============================================================================
