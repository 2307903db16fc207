---------------------------- MODULE MCAggregator ----------------------------
(***************************************************************************)
(* Instance of Aggregator: two files, and texts that fit, that are longer   *)
(* than an abstract, that no abstract can be made of or that a read cuts in the  *)
(* middle of a character, and that are too large.                           *)
(***************************************************************************)
EXTENDS Aggregator

MCFolder == <<"/", "d">>

MCName == {<<"f">>, <<"g">>}

Wide == <<"w1", "w2", "w3">>

MCContentsOf ==
  (<<"f">> :> {<<"a", "b">>, <<"c">>, Wide})
    @@ (<<"g">> :> {<<"c">>, <<"x", "x", "x", "x", "x", "x", "x">>})
=============================================================================
