---------------------------- MODULE MCPolicyJobs ----------------------------
EXTENDS PolicyJobs, TLC

CONSTANTS p1, p2, r1, r2, l1, l2, l3, nightly, hourly, six

MCFirstRows == {[schedule |-> nightly, enabled |-> TRUE]}

\* The form saved with another schedule, the switch in the list, and the six
\* fields that the cron picker leaves behind.
MCAskedRows == { [schedule |-> hourly, enabled |-> TRUE],
                 [schedule |-> nightly, enabled |-> FALSE],
                 [schedule |-> six, enabled |-> TRUE] }
=============================================================================
