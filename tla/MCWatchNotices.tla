--------------------------- MODULE MCWatchNotices ---------------------------
(* Small instances of WatchNotices. *)
EXTENDS WatchNotices, TLC

\* A low price is past the lower bound, a middling one past none.
MCPast == {<<"low", "below">>}

MCKeys == WatchKeys

\* The event whose copies may be reported failed; the others are told by the same door.
MCUnreliable == {TriggerKey("low")}

\* The checks are alike, and so are the designs.
Symmetry == Permutations(Checks) \cup Permutations(Layouts)

=============================================================================
