--------------------------- MODULE MCAnchorPortal ---------------------------
(* AnchorPortal on small instances.                                        *)
EXTENDS AnchorPortal, TLC

CONSTANTS u1, u2, a1, a2, k1

\* Tabs and call slots are interchangeable names.
Symmetry == Permutations(Page) \cup Permutations(Call)

\* An anchor is registered, approved and has a key; another domain is free.
ReadyInit ==
  /\ anchors = (a1 :> [status |-> "APPROVED", approvedBy |-> u2]
                @@ [a \in Anchor |-> None])
  /\ members = (<<a1, u1>> :> [role |-> "ANCHOR_ADMIN", deleted |-> FALSE]
                @@ [m \in Membership |-> None])
  /\ keys = (k1 :> [anchor |-> a1, revoked |-> FALSE] @@ [k \in Key |-> None])
  /\ secrets = {k1}
  /\ requests = {}
  /\ reads = {}
  /\ log = (a1 :> [says |-> "APPROVED", by |-> u2] @@ k1 :> [says |-> "CREATED"]
            @@ [t \in Thing |-> None])
  /\ shown = [p \in Page |-> [a \in Anchor |-> None]]
  /\ call = [c \in Call |-> Idle]
  /\ disturbed = {}
  /\ begun = 0
  /\ failures = 0

ReadySpec == ReadyInit /\ [][Next]_vars
=============================================================================
