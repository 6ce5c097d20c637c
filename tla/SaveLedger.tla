----------------------------- MODULE SaveLedger -----------------------------
(***************************************************************************)
(* What StoragePool promises about the uploads it accepts: each becomes an *)
(* open ticket once, an open ticket is settled once, and only closing the  *)
(* pool drops the tickets that are still open.                             *)
(***************************************************************************)
EXTENDS Integers

CONSTANTS Ticket, CounterRange

VARIABLES open, settled, closed

ledgerVars == <<open, settled, closed>>

LedgerInit == open = {} /\ settled = 0 /\ closed = FALSE

Register(t) ==
  /\ ~ closed
  /\ t \notin open
  /\ open' = open \cup {t}
  /\ UNCHANGED <<settled, closed>>

Settle(t) ==
  /\ t \in open
  /\ open' = open \ {t}
  /\ settled' = (settled + 1) % CounterRange
  /\ UNCHANGED closed

Close ==
  /\ ~ closed
  /\ closed' = TRUE
  /\ open' = {}
  /\ UNCHANGED settled

LedgerNext == (\E t \in Ticket : Register(t) \/ Settle(t)) \/ Close

LedgerSpec == LedgerInit /\ [][LedgerNext]_ledgerVars
=============================================================================
