----------------------------- MODULE LeaseGrant -----------------------------
(***************************************************************************)
(* What a lease of the table CronLease promises about one key: a run       *)
(* starts only when nobody holds the key or its own process does, and from *)
(* then on the process holds it until one of its runs leaves or the hold   *)
(* lapses.  A hold may lapse at any time, so runs of two processes may be  *)
(* inside together, but never because the second one took a hold that was  *)
(* still good, and never because a run gave away the hold of another       *)
(* process.                                                                *)
(***************************************************************************)
CONSTANTS Procs, Runs, Nobody

VARIABLES
  holder,    \* the process whose hold is good, or Nobody
  inside     \* the runs <<process, run>> that do their work

grantVars == <<holder, inside>>

GrantInit == holder = Nobody /\ inside = {}

\* A run is let in and its process holds the key.
Grant(p, r) ==
  /\ holder \in {Nobody, p}
  /\ holder' = p
  /\ inside' = inside \union {<<p, r>>}

\* A run leaves; it ends the hold of its own process, or fails to.
Leave(p, r) ==
  /\ <<p, r>> \in inside
  /\ inside' = inside \ {<<p, r>>}
  /\ \/ holder' = holder
     \/ holder = p /\ holder' = Nobody

Lapse == holder' = Nobody /\ UNCHANGED inside

\* A process dies with its runs; its hold stays until it lapses.
Vanish(p) ==
  /\ inside' = {x \in inside : x[1] # p}
  /\ UNCHANGED holder

GrantNext ==
  \/ Lapse
  \/ \E p \in Procs : Vanish(p) \/ \E r \in Runs : Grant(p, r) \/ Leave(p, r)

GrantSpec == GrantInit /\ [][GrantNext]_grantVars
=============================================================================
