----------------------------- MODULE MCCustomerApi -----------------------------
(***************************************************************************)
(* Invocations that overlap on the onboarding and the later life of one    *)
(* customer, a rejection and a second review cycle included: an engineer,  *)
(* a second engineer who is an architect too, and an architect.  Calls     *)
(* come keyed and unkeyed, at stale versions, with one key for two bodies, *)
(* and a second customer may get the same name.                            *)
(***************************************************************************)
EXTENDS CustomerApi, TLC

CONSTANTS eng, dual, arch, c1, c2, n1, n2, aws, w1, w2

MCUser      == {eng, dual, arch}
MCRoles     == (eng :> {"CLOUD_ENGINEER"}) @@ (dual :> Role)
                  @@ (arch :> {"PLATFORM_ARCHITECT"})
MCCanCreate == {eng, dual}
MCCustomer  == {c1, c2}
MCName      == {n1, n2}
MCProvider  == {aws}

Call(op, actor, v, key, name, body) ==
  [op |-> op, actor |-> actor, customer |-> c1, expected |-> v, key |-> key,
   name |-> name, providers |-> IF body THEN {aws} ELSE {}, primary |-> body, reason |-> TRUE]

MCRequests ==
  {Call("create", eng, 0, "k", n1, TRUE), Call("create", dual, 0, "", n1, FALSE)}
  \cup {Call("cloud-providers", eng, v, "", n1, b) : v \in {1, 2, 4}, b \in BOOLEAN}
  \cup {Call("update", eng, v, "", n2, TRUE) : v \in {1, 4}}
  \cup {Call("submit", eng, v, "k", n1, TRUE) : v \in 1 .. 2}
  \cup {Call(op, dual, 4, "", n1, TRUE) : op \in {"submit", "resubmit"}}
  \cup {Call("review/start", u, v, "k", n1, TRUE) : u \in {dual, arch}, v \in {2, 5}}
  \cup {Call("reject", arch, 3, "", n1, TRUE)}
  \cup {Call("approve", u, v, "k", n1, TRUE) : u \in {dual, arch}, v \in {3, 6}}
  \cup {Call("activate", arch, v, "", n1, TRUE) : v \in {4, 7}}
  \cup {Call(op, arch, 5, "k", n1, TRUE) : op \in {"suspend", "deactivate"}}
  \cup {Call("reactivate", dual, 6, "", n1, TRUE)}
Symmetry == Permutations({w1, w2})
=============================================================================
