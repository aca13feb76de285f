------------------------------ MODULE Redaction ------------------------------
(***************************************************************************)
(* Redaction (ironstate-aggregate/src/redaction.rs): what one principal    *)
(* sees of another's values.  Values kept per principal are a function on  *)
(* the principals that have one; a residue is what `conceal` leaves of     *)
(* them for everybody.                                                     *)
(***************************************************************************)

\* The viewer's own value, if it has one, and the residue of every other.
RedactPerPrincipal(values, residue, viewer) ==
  [mine   |-> {values[p] : p \in DOMAIN values \intersect {viewer}},
   others |-> [p \in DOMAIN values \ {viewer} |-> residue[p]]]

RedactOwned(owned, residue, viewer) ==
  IF owned.owner = viewer THEN [mine |-> owned.value] ELSE [concealed |-> residue]
=============================================================================
