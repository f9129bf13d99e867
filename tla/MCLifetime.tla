----------------------------- MODULE MCLifetime -----------------------------
(***************************************************************************)
(* Small instances of Lifetime: an entry that is resident and one that is  *)
(* not.                                                                    *)
(***************************************************************************)
EXTENDS Lifetime

TwoModels   == 1..2
OneResident == <<1>>

(* Three that are loaded on demand. *)
ThreeModels == 1..3
NoResident  == <<>>
=============================================================================
