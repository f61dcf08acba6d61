---------------------------- MODULE MCDeployment ----------------------------
(* Values of the constants of Deployment for TLC. *)
EXTENDS Deployment

CONSTANTS alpha, beta, own, ra, rb, root, pw1, pw2,
          p1, p2, m1, m2, m3, edited, s1, r1, r2, automatic

Typed(pw) == [r \in Roles |-> pw]

Strict(runtime, pw, provision) ==
  [runtime |-> runtime, owner |-> own, password |-> Typed(pw), danger |-> FALSE,
   provision |-> provision, activate |-> TRUE]
Danger(r, pw, provision) ==
  [runtime |-> r, owner |-> r, password |-> Typed(pw), danger |-> TRUE,
   provision |-> provision, activate |-> FALSE]

\* Operators give each profile a role of its own, or have second thoughts
\* about the mode, the role, the password and whether to provision.
MCCareful ==
  [p \in Profiles |-> {Strict(IF p = alpha THEN ra ELSE rb, pw1, TRUE)}]
MCAnswers ==
  [p \in Profiles |->
     MCCareful[p] \cup
     IF p = alpha THEN {Danger(own, pw1, TRUE), Strict(root, pw1, TRUE)}
     ELSE {Strict(ra, pw2, FALSE)}]

Empty == [r \in Roles |-> Null]
Prepared(owner, public) ==
  [owner |-> owner, public |-> public, connect |-> {}, extensions |-> public]
Exist(pws) == [r \in Roles |-> IF r \in DOMAIN pws THEN pws[r] ELSE Null]

\* An empty server, and one with the database and roles of earlier attempts.
MCClusters ==
  {<<Empty, NoDatabase>>,
   <<Exist([r \in {own, root, ra} |-> IF r = ra THEN pw2 ELSE pw1]),
     Prepared(own, TRUE)>>}

\* A release, the next one, and one with an edited migration.
MCReleases == {<<m1>>, <<m1, m2, m3>>, <<m1, edited, m3>>}
=============================================================================
