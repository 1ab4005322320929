---------------------------- MODULE MCCacheStore ----------------------------
(* Two windows on one workspace and one on another, with one cache file.   *)
EXTENDS CacheStore

MCScope == [p \in {"p1", "p2", "q"} |-> IF p = "q" THEN "other" ELSE "ws"]
MCScope2 == [p \in {"p1", "p2"} |-> "ws"]
=============================================================================
