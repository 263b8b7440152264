----------------------- MODULE MCRedisConnectionStore -----------------------
(***************************************************************************)
(* Model-checking instance of RedisConnectionStore: two device connections *)
(* (so a disconnect of one runs beside calls of the other), two namespaces *)
(* (so clearConnection's Promise.all has more than one HDEL in flight) and *)
(* one rate-limit time value.                                              *)
(***************************************************************************)
EXTENDS RedisConnectionStore

CONSTANTS c1, c2, n1, n2, t1

MCConns == {c1, c2}
MCNamespaces == {n1, n2}
MCRateTimes == {t1}

=============================================================================
