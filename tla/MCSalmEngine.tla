---------------------------- MODULE MCSalmEngine ----------------------------
(* Two slots. In `contended` two sequences are admitted that cannot both    *)
(* grow to their end, in `tight` the one that is left even needs the cells  *)
(* of the prompt cache; the other loads are about the kinds of requests.    *)
EXTENDS SalmEngine

Asks(ks, cs, p, x, b, g, n) ==
    [kinds |-> ks, cancels |-> cs, prompt |-> p, prefix |-> x, budget |-> b, grow |-> g, pool |-> n]

contended == Asks(<<"plain", "plain", "fallback">>, {1}, 2, 1, 4, 1, 12)
tight     == Asks(<<"fallback", "timestamps">>, {0, 1}, 2, 2, 5, 0, 8)
again     == Asks(<<"plain", "flaky">>, {1}, 2, 2, 5, 0, 8)
aligned   == Asks(<<"invalid", "timestamps", "timestamps">>, {1}, 1, 1, 2, 1, 8)
oversized == Asks(<<"plain", "long", "mute">>, {1}, 1, 1, 2, 1, 8)
encoded   == Asks(<<"unencodable", "diarization", "voiceless">>, {1}, 1, 1, 1, 1, 8)

AllLoads == {contended, tight, again, aligned, oversized, encoded}
Contended == {contended}
=============================================================================
