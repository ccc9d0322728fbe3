---------------------------- MODULE MCStreamFeed ----------------------------
(* A tab with two hooks that share a channel. *)
EXTENDS StreamFeed
CONSTANTS a, a1, a2, book, tape
MCTabs == {a}
MCHooks == {a1, a2}
MCTabOf == [h \in MCHooks |-> a]
MCChannels == {book, tape}
MCWants == [h \in MCHooks |-> IF h = a1 THEN {{}, {book}} ELSE {{}, {book, tape}}]
=============================================================================
