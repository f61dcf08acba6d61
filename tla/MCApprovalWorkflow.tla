------------------------- MODULE MCApprovalWorkflow -------------------------
(* Values of the constants of ApprovalWorkflow for TLC. *)
EXTENDS ApprovalWorkflow

CONSTANTS alice, bob, shared, fact, k1, f1, f2, x, y

\* Alice owns the namespace; Bob may propose and is an administrator, so
\* that a purge has its second person.  Bob approves once he is granted to.
MCOwner == [n \in {shared} |-> alice]
MCInitialGrants == {<<shared, bob, "propose">>, <<shared, bob, "admin">>}
MCGrantable == {<<shared, bob, "approve">>}

\* Alice only decides; Bob's proposals wait for her until his policy is set to
\* apply creates and updates at once and to deny deletes.
MCInitialPolicy ==
  [p \in {alice, bob} |->
     [o \in Operations |-> IF p = alice THEN "deny" ELSE "require"]]
MCPolicies ==
  [p \in {alice, bob} |->
     IF p = alice THEN {}
     ELSE {[o \in Operations |-> IF o = "delete" THEN "deny" ELSE "auto"]}]

\* Two fields, so that a patch can leave one alone.
Sets(field, value) == [f \in {f1, f2} |-> IF f = field THEN value ELSE Keep]
MCCreatePayloads == {Sets(f1, x), Sets(f1, y)}
MCOneCreate == {Sets(f1, x)}
MCUpdatePayloads == {Sets(f1, y), Sets(f2, y)}

MCFixedPolicies == [p \in {alice, bob} |-> {}]
MCOneUpdate == {Sets(f1, y)}

Always == [valid_from |-> Null, valid_to |-> Null]
MCAlways == {Always}
MCWindows == {Always, [valid_from |-> Null, valid_to |-> 1]}
=============================================================================
