----------------------- MODULE MCSchedulingController -----------------------
(* Small instances of SchedulingController for TLC. *)
EXTENDS SchedulingController, TLC

MCRequest == 1..3

MCAgentType == {1, 2}

\* Two agents of different types and an ordinary request.
MCTypeOf == (1 :> 1 @@ 2 :> 2)

MCPrompt == (1 :> 2 @@ 2 :> 2 @@ 3 :> 1)

MCMaxTokens == (1 :> 2 @@ 2 :> 3 @@ 3 :> 2)

\* The first agent leads by the borrowing margin, or is behind.
MCScores == {(1 :> 3 @@ 2 :> 1 @@ 3 :> 0), (1 :> 1 @@ 2 :> 2 @@ 3 :> 0)}

MCTypeScores == {(1 :> 3 @@ 2 :> 1)}

\* One agent and two ordinary requests.
OneAgent == (1 :> 1)

\* Prompts of which two fill all blocks.
TightPrompt == (1 :> 3 @@ 2 :> 2 @@ 3 :> 2)

TightMaxTokens == (1 :> 1 @@ 2 :> 2 @@ 3 :> 1)
=============================================================================
