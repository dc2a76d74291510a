---------------------------- MODULE MCRedisLeases ----------------------------
(* An instance of RedisLeases.tla for TLC; MCTunnel has the other.             *)
EXTENDS RedisLeases, TLC

CONSTANTS t1, t2

\* One crashed request and one that keeps asking.
TwoTasks == {t1, t2}
=============================================================================
