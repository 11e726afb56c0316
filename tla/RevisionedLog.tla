--------------------------- MODULE RevisionedLog ---------------------------
(***************************************************************************)
(* The store as a client may think of it (README.md:5, "request_id" and    *)
(* "expected_revision"): one log of requests per drill.  A request takes   *)
(* effect at once or not at all, only at the revision it names, only if    *)
(* its id never took effect before, and never on a certified drill.        *)
(* DrillService implements it.                                             *)
(***************************************************************************)
EXTENDS Naturals, Sequences

CONSTANTS Requests, DrillIds

VARIABLES
    logs,   \* the requests applied to each drill there is
    used,   \* the request ids that took effect
    final   \* the certified drills

vars == <<logs, used, final>>

Init ==
    /\ final = {}
    /\ \/ logs = << >> /\ used = {}
       \/ \E r \in Requests, d \in DrillIds :
             r.op = "create" /\ logs = [x \in {d} |-> <<r>>] /\ used = {r.id}

Use(r) == r.id \notin used /\ used' = used \cup {r.id}

Create(d, r) ==
    /\ r.op = "create" /\ d \notin DOMAIN logs
    /\ Use(r)
    /\ logs' = [x \in DOMAIN logs \cup {d} |-> IF x = d THEN <<r>> ELSE logs[x]]
    /\ UNCHANGED final

Write(d, r) ==
    /\ r.op # "create" /\ r.drill = d
    /\ d \in DOMAIN logs \ final
    /\ r.expected = Len(logs[d])
    /\ Use(r)
    /\ logs' = [logs EXCEPT ![d] = Append(@, r)]
    /\ final' = IF r.op = "approve" THEN final \cup {d} ELSE final

Next == \E d \in DrillIds, r \in Requests : Create(d, r) \/ Write(d, r)

Spec == Init /\ [][Next]_vars
=============================================================================
