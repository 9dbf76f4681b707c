--------------------------- MODULE MCReviewRound ---------------------------
(***************************************************************************)
(* One confirmation; then the nearest holder of a role, a board that sits, *)
(* and the level above it.                                                 *)
(***************************************************************************)
EXTENDS ReviewRound

CONSTANTS p1, p2, p3, p4, n1, e1, e2, e3

MCNormal == <<n1>>
MCEscalation == <<e1, e2, e3>>
\* the top level is missing for some participants: the board is then the end
MCLineages == {{}, {e3}}
Staff(first, nearest, board, top) ==
    n1 :> first @@ e1 :> nearest @@ e2 :> board @@ e3 :> top
\* p1 is whoever the filing is of; the third staffing has a board only the
\* confirmer holds, so that a sitting may be called long after the round came to it
MCStaffings == {
    Staff({p2}, {p1}, {p2, p3}, {p2}),
    Staff({p2}, {}, {p2, p3}, {p1, p3}),
    Staff({p2}, {p1}, {p2}, {p3})}
MCPosts == {<<e1, p4>>, <<e2, p4>>, <<e2, p3>>}
=============================================================================
