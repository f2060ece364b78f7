--------------------------- MODULE ResourceGraph ---------------------------
(***************************************************************************)
(* What the program of a stack registers, put together from what its       *)
(* components register.                                                    *)
(***************************************************************************)
EXTENDS Integers, Sequences

\* The resources of all components, each with what it depends on.
Together(parts) ==
    [r \in UNION {DOMAIN parts[i] : i \in DOMAIN parts} |->
        parts[CHOOSE i \in DOMAIN parts : r \in DOMAIN parts[i]][r]]

\* A plan, in the form PulumiUp takes: what is not said to need anything needs nothing.
Graph(deps, needs, registered, issued, jobs) ==
    LET below[r \in DOMAIN deps] == deps[r] \cup UNION {below[s] : s \in deps[r]}
    IN  [resources |-> DOMAIN deps,
         deps |-> deps,
         needs |-> [r \in DOMAIN deps |-> IF r \in DOMAIN needs THEN needs[r] ELSE {}],
         registered |-> registered,
         issued |-> issued,
         jobs |-> jobs,
         below |-> below]
=============================================================================
