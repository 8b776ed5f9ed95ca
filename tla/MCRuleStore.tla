----------------------------- MODULE MCRuleStore -----------------------------
\* RuleStore for TLC.  Two ids let one run of the miner fail between two inserts;
\* two handlers are enough for a read and a save of one to enclose the other's.
EXTENDS RuleStore
=============================================================================
