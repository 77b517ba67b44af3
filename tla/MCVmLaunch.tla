------------------------------ MODULE MCVmLaunch ------------------------------
(* A stock kernel, one with everything in modules and a formatter to install, *)
(* one with a foreign default route, one without a formatter.                 *)
EXTENDS VmLaunch

MCMachines ==
    {[builtin |-> Driver, tree |-> {}, addrs |-> {}, gateway |-> "none", formatter |-> "shipped"],
     [builtin |-> {}, tree |-> Driver, addrs |-> {}, gateway |-> "none", formatter |-> "installable"],
     [builtin |-> {"hv_vmbus"}, tree |-> {"hv_storvsc"}, addrs |-> {}, gateway |-> "none",
      formatter |-> "shipped"],
     [builtin |-> Driver, tree |-> {}, addrs |-> {"ours"}, gateway |-> "other",
      formatter |-> "missing"]}

Reuse == [d \in Disk |-> IF d = 1 THEN "Reuse" ELSE "Error"]
MCRequests ==
    {[mode |-> "hcs", net |-> TRUE, policy |-> Reuse, scheduled |-> TRUE,
      retention |-> [d \in Disk |-> IF d = 1 THEN "Persistent" ELSE "Ephemeral"]],
     [mode |-> "hcs", net |-> TRUE, policy |-> [d \in Disk |-> "Reuse"], scheduled |-> FALSE,
      retention |-> [d \in Disk |-> "Ephemeral"]],
     [mode |-> "hcs-bootstrap", net |-> FALSE, policy |-> Reuse, scheduled |-> FALSE,
      retention |-> [d \in Disk |-> "Ephemeral"]]}

MCDisk == 1..2
==============================================================================
