----------------------------- MODULE MCSummaries -----------------------------
(***************************************************************************)
(* Instance of Summaries: limits of a few bytes, so that short texts reach  *)
(* every strategy and every cut.                                            *)
(***************************************************************************)
EXTENDS Summaries

Stop == <<"p1", "p2", "p3">>
Wide == <<"w1", "w2", "w3">>

MCPiece ==
  {<<"x">>, <<"y", "z">>, <<".">>, <<" ">>, <<"\n">>, <<"\n", "\n">>, <<"#", " ">>, Fence, Stop, Wide}
=============================================================================
