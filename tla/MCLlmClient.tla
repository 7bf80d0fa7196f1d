---------------------------- MODULE MCLlmClient ----------------------------
(* A call of any kind, down the longest chain of models, beside one that     *)
(* goes to Groq; two Groq keys; and two deployments: everything, with Vertex *)
(* AI; and an API key for Gemini without NIM.                                *)
EXTENDS LlmClient

Deployments ==
    {[vertex |-> TRUE, gemini |-> TRUE, nim |-> TRUE, mock |-> FALSE],
     [vertex |-> FALSE, gemini |-> TRUE, nim |-> FALSE, mock |-> TRUE]}

Tasks == [a |-> {"complete", "stream", "embed"}, b |-> {"complete"}]

Wanted == [a |-> {"groq", "three"}, b |-> {"groq"}]
=============================================================================
