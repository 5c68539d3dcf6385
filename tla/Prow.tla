-------------------------------- MODULE Prow --------------------------------
(***************************************************************************)
(* IsInProw (src/pkg/resources/utils.go): whether the RHMI CR is marked    *)
(* as running in Prow CI by its "in_prow" annotation.  It is a pure       *)
(* function of the CR's annotations and changes no state, so it is       *)
(* modelled as an operator only; no run checks it, for there is nothing   *)
(* to say of it beyond its definition.                                    *)
(*                                                                         *)
(* GetAnnotations returns a Go map, nil when the CR has none.  A map is a  *)
(* function whose domain is the keys present; a lookup with "comma ok"     *)
(* yields the zero value "" and FALSE for a missing key, nil map included. *)
(***************************************************************************)

CONSTANTS
  Keys,         \* annotation keys, "in_prow" among them
  Values        \* annotation values, "true" and "" among them

\* every annotation map, the empty (nil) one included
AnnotationMaps == UNION {[D -> Values] : D \in SUBSET Keys}

\* v, ok := m[k]
Lookup(m, k) ==
  IF k \in DOMAIN m THEN [v |-> m[k], ok |-> TRUE] ELSE [v |-> "", ok |-> FALSE]

IsInProw(m) ==
  LET r == Lookup(m, "in_prow") IN r.ok /\ r.v = "true"

=============================================================================
