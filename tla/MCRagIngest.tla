----------------------------- MODULE MCRagIngest -----------------------------
(* Instances of RagIngest for TLC. *)
EXTENDS RagIngest, TLC

CONSTANTS a, b, c, img

\* Two versions of one document that show the same image, and a third document
\* that no parser accepts.
SharedImage == (a :> img) @@ (b :> img) @@ (c :> None)
=============================================================================
