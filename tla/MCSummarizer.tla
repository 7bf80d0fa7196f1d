---------------------------- MODULE MCSummarizer ----------------------------
(* A small instance: documents of two batches of two chunks, which three    *)
(* ingestions of any kind summarize with the same model.                    *)
EXTENDS Summarizer
=============================================================================
