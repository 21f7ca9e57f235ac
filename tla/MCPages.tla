------------------------------ MODULE MCPages ------------------------------
(* A small instance of Pages for the model checker: an array of two cells  *)
(* in two pages, an object that shares the second one, and one that shares *)
(* the third with that.                                                    *)
EXTENDS Pages
MCLayout == "arr" :> <<1, 2>> @@ "n" :> <<2, 3>> @@ "far" :> <<3>>
=============================================================================
