------------------------------- MODULE Results -------------------------------
(***************************************************************************)
(* Results of the fallible functions of the source: Ok(value) or           *)
(* Err(variant of the error).  A check is the name of the error that it    *)
(* returns, or None.                                                       *)
(***************************************************************************)
EXTENDS Integers, Sequences, FiniteSetsExt

Ok(v) == [ok |-> TRUE, val |-> v]
Err(e) == [ok |-> FALSE, error |-> e]
None == "none"

(* A result that fails with the first error there is. *)
Checked(error, v) == IF error = None THEN Ok(v) ELSE Err(error)

(* `?`: the value of a result is needed to go on. *)
AndThen(result, Rest(_)) == IF result.ok THEN Rest(result.val) ELSE result

(* The first of the errors of numbered elements: `?` in a loop. *)
FirstError(errors) ==
  LET bad == {i \in DOMAIN errors : errors[i] # None}
  IN IF bad = {} THEN None ELSE errors[Min(bad)]

(* Two checks in the order the code makes them. *)
Then(first, second) == IF first # None THEN first ELSE second
=============================================================================
