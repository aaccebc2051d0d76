-------------------------- MODULE EntityLifecycle --------------------------
(***************************************************************************)
(* What an entity handle promises its holder, whatever the allocator does  *)
(* underneath: it is handed out once, comes to life once, dies once, and   *)
(* never changes back.                                                     *)
(***************************************************************************)
CONSTANT Handle

VARIABLE status

Unissued == "unissued"   \* nobody has seen the handle
Pending  == "pending"    \* handed out, its components are not written yet
Live     == "live"       \* exists() answers true
Dead     == "dead"       \* destroyed: exists() answers false from now on

Init == status = [h \in Handle |-> Unissued]

Change(h, from, to) ==
  /\ status[h] = from
  /\ status' = [status EXCEPT ![h] = to]

Issue(h)   == Change(h, Unissued, Pending)
Write(h)   == Change(h, Pending, Live)
Create(h)  == Change(h, Unissued, Live)    \* both in one call
Destroy(h) == Change(h, Live, Dead)

Next == \E h \in Handle : Issue(h) \/ Write(h) \/ Create(h) \/ Destroy(h)

Spec == Init /\ [][Next]_status
=============================================================================
