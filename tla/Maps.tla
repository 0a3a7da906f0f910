-------------------------------- MODULE Maps ---------------------------------
(***************************************************************************)
(* Maps with a set of keys that changes: tables of rows, and the records of*)
(* a domain, an object whose properties a spread puts over another's.      *)
(***************************************************************************)

\* One key.
Only(k, v) == [x \in {k} |-> v]

\* The map f with v for k.
Put(f, k, v) == [x \in DOMAIN f \cup {k} |-> IF x = k THEN v ELSE f[x]]

\* { ...f, ...g }
Over(g, f) == [x \in DOMAIN g \cup DOMAIN f |-> IF x \in DOMAIN g THEN g[x] ELSE f[x]]
=============================================================================
