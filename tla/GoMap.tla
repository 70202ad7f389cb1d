------------------------------- MODULE GoMap -------------------------------
(***************************************************************************)
(* Go maps as functions whose domain is the set of present keys.  The      *)
(* zero value a Go read yields for an absent key is not here: every map of *)
(* the service has its own zero value, given where the map is declared.    *)
(***************************************************************************)

EmptyMap == [k \in {} |-> k]

\* m[k] = v
Put(m, k, v) == [x \in DOMAIN m \cup {k} |-> IF x = k THEN v ELSE m[x]]

\* for k in ks { delete(m, k) }
DeleteKeys(m, ks) == [x \in DOMAIN m \ ks |-> m[x]]

=============================================================================
