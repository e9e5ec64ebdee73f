---------------------------- MODULE MCBlockStore ----------------------------
(* A chain a1, a3, a4, a5 with a gap in its rounds, a certified fork c2 that*)
(* consensus leaves behind, and two blocks that are proposed and never      *)
(* certified: e4, which competes with a4, and d6 on the fork.  a1 is        *)
(* committed by the certificate of c2, a3 by that of a4 or by order votes,  *)
(* a4 likewise, and a5 by order votes only.                                 *)
EXTENDS BlockStore, TLC

CONSTANTS g, a1, c2, a3, a4, e4, a5, d6

MCBlock == {g, a1, c2, a3, a4, e4, a5, d6}
MCround == g :> 0 @@ a1 :> 1 @@ c2 :> 2 @@ a3 :> 3 @@ a4 :> 4 @@ e4 :> 4
           @@ a5 :> 5 @@ d6 :> 6
MCparent == g :> g @@ a1 :> g @@ c2 :> a1 @@ a3 :> a1 @@ a4 :> a3 @@ e4 :> a3
            @@ a5 :> a4 @@ d6 :> c2
MCCertified == {g, a1, c2, a3, a4, a5}
MCOrderCerts == {a3, a4, a5}
MCCommitCerts == {a3, a5}
=============================================================================
