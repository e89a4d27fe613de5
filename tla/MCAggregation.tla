---------------------------- MODULE MCAggregation ----------------------------
EXTENDS Aggregation

Policy(p, a, premium, rate) == [policy |-> p, agent |-> a, premium |-> premium, rate |-> rate]
Claim(p, a, claimed, settled) == [policy |-> p, agent |-> a, claimed |-> claimed, settled |-> settled]

\* A commission that rounds up from a half, a rate with four places, a policy without a premium,
\* a second row of p1 for another agent, and rows with empty cells.
MCPolicyRows ==
    {Policy("p1", 1, 1010, 750), Policy("p1", 2, 1010, 750), Policy("p2", 3, 0, 1000),
     Policy("p3", 1, 333, 1250), Policy("p2", 3, Blank, 1000),
     Policy("p4", NoAgent, 100, 500), Policy(NoPolicy, 1, 100, 500)}

\* Claims of p1 with its own and with a stale agent, of a policy nobody has, and of none.
MCClaimRows ==
    {Claim("p1", 1, 500, 400), Claim("p1", 3, 300, Blank), Claim("p2", 3, 77, 0),
     Claim("p9", 2, 100, 100), Claim(NoPolicy, 1, 100, 0)}
=============================================================================
