----------------------------- MODULE MCBlockSync -----------------------------
(* Two peers at different heights, a chain longer than a page and a        *)
(* channel shorter than one.                                               *)
EXTENDS BlockSync
=============================================================================
