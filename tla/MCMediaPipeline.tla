-------------------------- MODULE MCMediaPipeline --------------------------
(***************************************************************************)
(* An instance of MediaPipeline for TLC: a file and an image with one      *)
(* thumbnail, wanted by three requests of two items.  One item asks for    *)
(* both, and the image is also wanted by one whose errback recovers.       *)
(***************************************************************************)
EXTENDS MediaPipeline, TLC

CONSTANTS pdf, png, product, offer, r1, r2, r3

MCItemOf == r1 :> product @@ r2 :> product @@ r3 :> offer

MCFileOf == r1 :> pdf @@ r2 :> png @@ r3 :> png

MCErrback == r1 :> "none" @@ r2 :> "raises" @@ r3 :> "recovers"

MCParts == pdf :> 1 @@ png :> 2
=============================================================================
