----------------------------- MODULE MCL0Worker -----------------------------
(***************************************************************************)
(* Instances of L0Worker for TLC.  Three submit requests, two of them for  *)
(* the same task id, so that a duplicate, a resubmission after the end and *)
(* a pool at its limit all happen.                                         *)
(***************************************************************************)
EXTENDS L0Worker

CONSTANTS r1, r2, r3, t1, t2

MCRequest == {r1, r2, r3}
MCTask == {t1, t2}
MCTaskOf == r1 :> t1 @@ r2 :> t1 @@ r3 :> t2
MCOrderKind == r1 :> "stream" @@ r2 :> "race" @@ r3 :> "fanout"
=============================================================================
