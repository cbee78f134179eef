---------------------------- MODULE MCCiPipeline ----------------------------
(* CiPipeline with one service, and a page its pull requests may move, and *)
(* edit while they do.                                                     *)
EXTENDS CiPipeline, TLC

CONSTANTS adapter, manifest, page, doc, text, edited

MCOwned == adapter :> {manifest, page}
MCManifest == adapter :> manifest
MCReads == adapter :> {manifest, page}
MCHolds == manifest :> {text} @@ page :> {text, Absent}
             @@ doc :> {text, edited, Absent}

(* One is the other with a line changed. *)
MCSimilar == Contents \X Contents

(* The member's tests want the page. *)
MCGood(m, inputs) == inputs[page] # Absent
=============================================================================
