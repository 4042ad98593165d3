----------------------------- MODULE MCPromotion -----------------------------
(* Small instances of Promotion for TLC.                                    *)
EXTENDS Promotion, TLC

\* Promoters are interchangeable.
PromoterSymmetry == Permutations(Promoters)

=============================================================================
