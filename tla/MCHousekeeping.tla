---------------------------- MODULE MCHousekeeping ----------------------------
(***************************************************************************)
(* What the laptop's janitor and the cloud's maintenance clean up in the   *)
(* end.  The two share no variable; a behaviour is one of the part in      *)
(* focus, under that part's fairness.                                      *)
(***************************************************************************)
EXTENDS Interactions, Maintenance

CONSTANTS j1, here

VARIABLE focus

HousekeepingInit ==
  focus \in {"LAPTOP", "CLOUD"} /\ Init /\ MaintenanceInit

HousekeepingNext ==
  /\ \/ focus = "LAPTOP" /\ Next /\ UNCHANGED maintenanceVars
     \/ focus = "CLOUD" /\ MaintenanceNext /\ UNCHANGED vars
  /\ UNCHANGED focus

\* Fairness of Interactions, and MaintenanceFairness, of the part in focus:
\* the other one's steps are not there to be taken.
Laptop == focus = "LAPTOP"
LaptopFairness ==
  /\ WF_vars(Laptop /\ Submission) /\ WF_vars(Laptop /\ Inference)
  /\ WF_vars(Laptop /\ Shutdown)
  /\ WF_vars(Laptop /\ process = "STOPPED" /\ Exit) /\ WF_vars(Laptop /\ Restart)
  /\ SF_vars(Laptop /\ SweepBegins(Janitor)) /\ SF_vars(Laptop /\ Tick)
  /\ \A w \in Sweepers :
       WF_vars(Laptop /\ (SweepEnds(w) \/ \E j \in Jobs : SweepVisits(w, j)))
CloudFairness ==
  /\ \A s \in Servers : SF_maintenanceVars(focus = "CLOUD" /\ Work(s))
  /\ \A d \in Devices : WF_maintenanceVars(focus = "CLOUD" /\ Unlock(d))

HousekeepingSpec ==
  /\ HousekeepingInit /\ [][HousekeepingNext]_<<focus, vars, maintenanceVars>>
  /\ LaptopFairness /\ CloudFairness
=============================================================================
