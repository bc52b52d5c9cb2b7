--------------------------- MODULE MCSessionStore ---------------------------
(***************************************************************************)
(* An instance of SessionStore: the reducer throws on `poison`, `empty` is *)
(* an empty batch, and w1 and w2 are alike, so w2 is not called before w1. *)
(***************************************************************************)
EXTENDS SessionStore

CONSTANTS w1, w2, poison, empty

AlikeInTurn == submitted'[w2] # 0 => submitted'[w1] # 0
=============================================================================
