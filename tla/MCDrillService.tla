--------------------------- MODULE MCDrillService ---------------------------
(* Small instances of DrillService: a request to create, a registration of *)
(* evidence at revision 1, another that reuses its id with other content,  *)
(* and a write and an approval that compete for revision 2.                *)
EXTENDS ServiceProperties

CONSTANTS d1, d2

mcRequest(id, op, drill, expected, body) ==
    [id |-> id, op |-> op, drill |-> drill, expected |-> expected, body |-> body]

mcCreate   == mcRequest(0, "create", None, 0, 0)
mcRegister == mcRequest(1, "register", d1, 1, 0)
mcReused   == mcRequest(1, "register", d1, 1, 1)
mcRival    == mcRequest(2, "write", d1, 2, 0)
mcApproval == mcRequest(3, "approve", d1, 2, 0)

mcRequests == {mcCreate, mcRegister, mcReused, mcRival, mcApproval}

mcSequel == {mcCreate, mcRegister, mcRival, mcApproval}

mcDrillIds == {d1, d2}

mcOneDrill == {d1}
=============================================================================
