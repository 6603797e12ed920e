---------------------------- MODULE PostLifecycle ----------------------------
(***************************************************************************)
(* What the publication pipeline promises of a post, without tasks,        *)
(* leases, requests or a database: a post waits, is attempted, and ends    *)
(* sent, failed or unknown; only a failed one is tried again; and at most  *)
(* one copy of it is ever published, while its attempt runs or after its   *)
(* outcome was given up as unknown, never once it is failed.  Its row can  *)
(* be deleted at any moment (the check that it is pending may be outdated  *)
(* when the row goes), and then nothing brings it back.                    *)
(***************************************************************************)
EXTENDS Naturals

CONSTANT Posts

VARIABLES
    status,   \* what the API shows
    copies    \* how many copies of the post the provider has published

vars == <<status, copies>>

Init ==
    /\ status = [p \in Posts |-> "absent"]
    /\ copies = [p \in Posts |-> 0]

Move(p, from, to) ==
    /\ status[p] = from
    /\ status' = [status EXCEPT ![p] = to]
    /\ UNCHANGED copies

Create(p)  == Move(p, "absent", "pending")
Attempt(p) == Move(p, "pending", "in_progress")
Refuse(p)  == Move(p, "pending", "failed")
Retry(p)   == Move(p, "failed", "pending")

\* A definite outcome agrees with the provider; an unknown one claims nothing.
Resolve(p) ==
    \/ copies[p] = 1 /\ Move(p, "in_progress", "sent")
    \/ copies[p] = 0 /\ Move(p, "in_progress", "failed")
    \/ Move(p, "in_progress", "unknown")

Delete(p) == status[p] /= "absent" /\ Move(p, status[p], "deleted")

Publish(p) ==
    /\ status[p] \in {"in_progress", "unknown", "deleted"}
    /\ copies[p] = 0
    /\ copies' = [copies EXCEPT ![p] = 1]
    /\ UNCHANGED status

Next == \E p \in Posts :
    Create(p) \/ Attempt(p) \/ Refuse(p) \/ Retry(p) \/ Resolve(p) \/ Delete(p)
      \/ Publish(p)

Spec == Init /\ [][Next]_vars

=============================================================================
