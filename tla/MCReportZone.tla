---------------------------- MODULE MCReportZone ----------------------------
EXTENDS ReportZone

\* Two claims on the first agent's policy, in different partitions.
MCClaimPolicy == [c \in 0..1 |-> 0]

\* Bound: links are asked for in the behaviours without a fan-out.  The readers change no state
\* that another one reads.
OneReader == listed = {} \/ \A a \in Asked : link[a] = "none"
=============================================================================
