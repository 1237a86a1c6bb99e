------------------------------ MODULE DataRoot ------------------------------
(***************************************************************************)
(* The processes that share a data root: the service with its execution    *)
(* slot, and the maintenance tool with its exchange.  They meet in         *)
(* service.lock and in what require_no_pending reads.                      *)
(***************************************************************************)
EXTENDS ExecutionSlot, DirectoryExchange

vars == <<holder, slotVars, exchangeVars>>

Init == holder = "none" /\ SlotInit /\ ExchangeInit

\* Slip: the service looks before it has the lock.
StartUnlocked ==
  /\ ExchangeQuiet
  /\ holder # "service" /\ holder' = "service"
  /\ UNCHANGED <<slotVars, exchangeVars>>

\* main: the lock, and under it the journal, before the Application exists.
ServiceStarts ==
  /\ Take("service")
  /\ ExchangeQuiet
  /\ UNCHANGED <<slotVars, exchangeVars>>

ServiceStops ==
  /\ SlotIdle
  /\ blocked' = FALSE
  /\ Leave("service")
  /\ UNCHANGED <<diskVars, at, rev, owned, before, worker, readers, lost, made, exchangeVars>>

ServiceCrashes ==
  /\ Leave("service")
  /\ SlotCrash
  /\ UNCHANGED exchangeVars

Serves ==
  /\ holder = "service"
  /\ SlotNext
  /\ UNCHANGED <<holder, exchangeVars>>

Maintains ==
  /\ ExchangeNext
  /\ UNCHANGED slotVars

Next == ServiceStarts \/ ServiceStops \/ ServiceCrashes \/ Serves \/ Maintains

Spec == Init /\ [][Next]_vars

-----------------------------------------------------------------------------
\* The types of both parts, and what belongs to which holder of the lock: nobody
\* prepares or executes without the service, no command runs without the tool.
TypeOK ==
  /\ holder # "service" => SlotIdle
  /\ holder = "tool" <=> tool # NoTool
  /\ holder \in Holders
  /\ SlotTypeOK
  /\ old \in 0..MaxTransactions
  /\ new \in [Transactions -> {"none", "stage", "original", "retained"}]
  /\ content \in [Transactions -> {"empty", "partial", "whole"}]
  /\ tool.tx \in 0..MaxTransactions
=============================================================================
