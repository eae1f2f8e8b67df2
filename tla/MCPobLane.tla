------------------------------ MODULE MCPobLane ------------------------------
(* Model values and kinds for the runs of PobLane. *)
EXTENDS PobLane

CONSTANTS a1, a2, g1, g2, b1, b2, m1, u1, d1

\* Two analyses, two Item Checks, two build loads, one gear search and the
\* follow-up work of a painted check.
MCKind ==
    [r \in Requests |->
        CASE r \in {a1, a2} -> "analysis" [] r \in {g1, g2} -> "gameplay"
          [] r \in {b1, b2} -> "baseline" [] r = m1 -> "gear"
          [] r = u1 -> "upgrade_path"     [] r = d1 -> "build_decomp"]

=============================================================================
