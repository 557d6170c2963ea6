-------------------------------- MODULE MCRun --------------------------------
(* Run.tla on a small instance: a response in no time, and one that the        *)
(* histogram keeps in a wider slot and that was corrected.                     *)
EXTENDS Run

SomeLatencies == {<<0, 0>>, <<70, 20>>}
===============================================================================
