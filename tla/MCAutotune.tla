------------------------------ MODULE MCAutotune ------------------------------
(* Instances of Autotune for TLC. *)
EXTENDS Autotune

TunedRoutines == <<"sdot", "scopy", "saxpy">>

(* Below, between and above the crossovers of the run. *)
TunedDefaults == [r \in {"sdot", "scopy", "saxpy"} |->
                    CASE r = "sdot" -> 4 [] r = "scopy" -> 9 [] r = "saxpy" -> 16]
===============================================================================
