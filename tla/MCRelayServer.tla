---------------------------- MODULE MCRelayServer ----------------------------
(* Small instances of RelayServer for TLC.                                 *)
EXTENDS RelayServer, TLC

\* Connections and session IDs are interchangeable; only safety is checked with
\* this symmetry.
Symmetry == Permutations(Conns) \cup Permutations(SessionIDs)

\* Bounds: one session outlives the grace period, or one removal of a subscriber is
\* under way, and the relay shuts down before any session is that old.
Bounded ==
  /\ Cardinality(aged) + Cardinality(prunes) <= 1
  /\ stopped => aged = {}
=============================================================================
