------------------------------- MODULE MCHosting -------------------------------
(* Three instances of the ledger's liveness in one run, by what is left of each *)
(* bound: time and a fault for the meter alone; two requests beside the last    *)
(* ticks, on two connections that may deadlock; one request and a fault.        *)
EXTENDS HostingCredits

LiveInit ==
  \/ HostingStart(0, MaxAsked, 0)
  \/ HostingStart(MaxTime, 0, MaxFaults)
  \/ HostingStart(MaxTime, MaxAsked - 1, 0)

LiveSpec == LiveInit /\ [][HostingNext]_hostingVars /\ HostingFairness
================================================================================
