------------------------------- MODULE MCSync -------------------------------
EXTENDS NodeSync

MCNodeEnv == [check |-> "ip", interval |-> 30, targets |-> {"u1"}, disabled |-> {}]
MCCliEnv == [check |-> "status", interval |-> 90, targets |-> {}, disabled |-> {}]
MCBotTargets == {"u2"}
=============================================================================
