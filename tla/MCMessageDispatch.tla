-------------------------- MODULE MCMessageDispatch --------------------------
(***************************************************************************)
(* Instances of MessageDispatch for TLC.  A behaviour is of one of two     *)
(* kinds, so that each stays small: in "overlap" several requests or cron  *)
(* runs work on one message; in "queue" one request and one cron run at a  *)
(* time work on all of them, filters may be such that resolve_recipients   *)
(* raises, and players are purged.                                         *)
(***************************************************************************)
EXTENDS MessageDispatch

CONSTANTS
  First,    \* the message of "overlap"
  MaxRows,  \* bound: its deliveries, those of two releases included
  Single    \* the request and the cron run of "queue"

VARIABLE scene

InScene ==
  /\ scene = "overlap" =>
       /\ purged = {}
       /\ Len(row[First]) <= MaxRows
       /\ \A m \in Message : Exists(m) => m = First /\ msg[m].text \notin Unresolvable
  /\ scene = "queue" =>
       /\ \A r \in Runner \ Single : run[r] = Idle
       /\ \A m \in Message \ {First} : Len(row[m]) <= 1

MCInit ==
  /\ Init
  /\ scene \in {"overlap", "queue"}
  /\ \A m \in Message \ {First} : seats[m] = 1

MCNext == Next /\ UNCHANGED scene /\ InScene'

\* Less than Fairness: of the cron runs only one must be started again and again.
MCFairness ==
  /\ \A r \in Runner : WF_vars(Proceed(r))
  /\ \A r \in Cron \cap Single : WF_vars(CronRead(r))

MCSpec == MCInit /\ [][MCNext]_<<vars, scene>> /\ MCFairness
=============================================================================
